---------------------------- MODULE Spec2Model ----------------------------
(***************************************************************************)
(* Query parsing and multi-factor ranking of the-library.                  *)
(*                                                                         *)
(*   server/api/services/parser.py   QueryParser                           *)
(*   server/api/services/scorer.py   QuoteScorer                           *)
(*   server/api/routes/search.py     search_quotes                         *)
(*                                                                         *)
(* Text is a sequence of one-character strings.  Real numbers (scores and  *)
(* weights) are integers counting thousandths.                             *)
(***************************************************************************)
EXTENDS Integers, Sequences, FiniteSets, TLC

VARIABLES
    query,          \* parser: the raw query text handed to QueryParser.parse
    parsed,         \* parser: the ParsedQuery returned by the last parse, or NoParse
    validated,      \* parser: what the last validate_query(query) returned, as a
                    \*         one-element sequence, or the empty sequence
    books,          \* database: the books table, book id -> row
    fts_rows,       \* database: the quotes the full-text index matches for Expr,
                    \*           in the order ORDER BY fts.rank returns them
    other_quotes,   \* database: the quotes stored that the index does not match
                    \*           for Expr
    current_config, \* tuning_manager.current_config
    scoring_config, \* scorer.scoring_config, NoConfig until the first update_config
    phrase_bonus,   \* scorer.phrase_bonus
    response,       \* what the last search call returned, or NoResponse
    profiles_dir,   \* tuning_manager.profiles_dir on disk: profile name -> the
                    \*           content of <name>.json, or NoFile
    current_overrides,      \* tuning_manager.current_overrides
    current_profile_name,   \* tuning_manager.current_profile_name
    running,        \* the calls threads that share the scorer are in the middle
                    \*           of (a breakdown search, an update_config), or NoCall
                    \*           where requests are served one after the other
    remembered      \* a search response a client kept, with the index and the
                    \*           active configuration it was made against, or NoResponse

parser_vars == <<query, parsed, validated>>
scorer_vars == <<books, fts_rows, other_quotes, current_config, scoring_config, phrase_bonus, response>>
manager_vars == <<profiles_dir, current_overrides, current_profile_name>>
\* what parsing and ranking leave alone
idle_vars == <<manager_vars, running, remembered>>
vars == <<query, parsed, validated, books, fts_rows, other_quotes, current_config, scoring_config,
          phrase_bonus, response, profiles_dir, current_overrides, current_profile_name,
          running, remembered>>

\* None where a text is optional: told apart from every text, whose elements
\* are single characters
None == <<"None">>

\* no ParsedQuery yet
NoParse == [none |-> TRUE]

(***************************************************************************)
(* Bounds                                                                  *)
(***************************************************************************)
MaxQueryLen == 6
MaxHits == 6
MaxTextLen == 3

(***************************************************************************)
(* Characters and the classes the regular expressions use                  *)
(***************************************************************************)
QUOTE == "\""
SPACE == " "
TAB   == "\t"
STAR  == "*"

\* <<lowercase, uppercase>> of every letter of the alphabet in use
CasePairs ==
    { <<"a", "A">>, <<"d", "D">>, <<"n", "N">>, <<"o", "O">>,
      <<"r", "R">>, <<"t", "T">>, <<"x", "X">> }

IsLetter(c) == \E p \in CasePairs : c = p[1] \/ c = p[2]

\* \w of the re module: letters (digits and underscore are not in the alphabet)
IsWordChar(c) == IsLetter(c)

\* \s of the re module, str.isspace
IsSpaceChar(c) == c \in {SPACE, TAB}

LowerChar(c) ==
    IF \E p \in CasePairs : p[2] = c
    THEN (CHOOSE p \in CasePairs : p[2] = c)[1]
    ELSE c

UpperChar(c) ==
    IF \E p \in CasePairs : p[1] = c
    THEN (CHOOSE p \in CasePairs : p[1] = c)[2]
    ELSE c

\* str.lower / str.upper
Lower(s) == [i \in 1..Len(s) |-> LowerChar(s[i])]
Upper(s) == [i \in 1..Len(s) |-> UpperChar(s[i])]

(***************************************************************************)
(* String helpers of the standard library, as the parser uses them         *)
(***************************************************************************)
\* str.strip(): drop leading and trailing whitespace
RECURSIVE LStrip(_)
LStrip(s) ==
    IF s # <<>> /\ IsSpaceChar(Head(s)) THEN LStrip(Tail(s)) ELSE s

RECURSIVE RStrip(_)
RStrip(s) ==
    IF s # <<>> /\ IsSpaceChar(s[Len(s)])
    THEN RStrip(SubSeq(s, 1, Len(s) - 1))
    ELSE s

\* str.lstrip() written for str.strip(): trailing whitespace survives
Strip_lstrip_only(s) == LStrip(s)

Strip(s) == RStrip(LStrip(s))

\* re.sub(r'\s+', ' ', s): every maximal run of whitespace becomes one space
RECURSIVE CollapseSpaces(_)
CollapseSpaces(s) ==
    IF s = <<>> THEN <<>>
    ELSE IF IsSpaceChar(Head(s))
         THEN <<SPACE>> \o CollapseSpaces(LStrip(s))
         ELSE <<Head(s)>> \o CollapseSpaces(Tail(s))

\* str.split(): the maximal runs of non-whitespace, in order
RECURSIVE Split(_)
RECURSIVE TakeTerm(_)
TakeTerm(s) ==
    IF s = <<>> \/ IsSpaceChar(Head(s)) THEN <<>>
    ELSE <<Head(s)>> \o TakeTerm(Tail(s))

Split(s) ==
    LET t == LStrip(s)
        w == TakeTerm(t)
    IN  IF t = <<>> THEN <<>>
        ELSE <<w>> \o Split(SubSeq(t, Len(w) + 1, Len(t)))

\* sep.join(terms)
RECURSIVE Join(_, _)
Join(sep, terms) ==
    IF terms = <<>> THEN <<>>
    ELSE IF Len(terms) = 1 THEN terms[1]
    ELSE terms[1] \o sep \o Join(sep, Tail(terms))

\* \b at the gap before position i (1..Len(s)+1): exactly one side is a word char
WordBoundary(s, i) ==
    LET before == i > 1 /\ IsWordChar(s[i - 1])
        after  == i <= Len(s) /\ IsWordChar(s[i])
    IN  before # after

\* r'\bkw\b' with re.IGNORECASE matches s at position i
MatchWordAt(s, i, kw) ==
    /\ i >= 1
    /\ i + Len(kw) - 1 <= Len(s)
    /\ Lower(SubSeq(s, i, i + Len(kw) - 1)) = kw
    /\ WordBoundary(s, i)
    /\ WordBoundary(s, i + Len(kw))

\* re.sub(r'\bkw\b', KW, s) without re.IGNORECASE: only the lowercase spelling matches
SubWord_case_sensitive(s, kw) ==
    [i \in 1..Len(s) |->
        IF \E j \in 1..i : /\ j + Len(kw) > i
                            /\ MatchWordAt(s, j, kw)
                            /\ SubSeq(s, j, j + Len(kw) - 1) = kw
        THEN UpperChar(s[i])
        ELSE s[i]]

\* re.sub(r'\bkw\b', KW, s, flags=re.IGNORECASE)
SubWord(s, kw) ==
    [i \in 1..Len(s) |->
        IF \E j \in 1..i : j + Len(kw) > i /\ MatchWordAt(s, j, kw)
        THEN LET j == CHOOSE k \in 1..i : k + Len(kw) > i /\ MatchWordAt(s, k, kw)
             IN  UpperChar(kw[i - j + 1])
        ELSE s[i]]

(***************************************************************************)
(* QueryParser                                                             *)
(***************************************************************************)
KW_AND == <<"a", "n", "d">>
KW_OR  == <<"o", "r">>
KW_NOT == <<"n", "o", "t">>

\* the alternatives of r'\b(AND|OR|NOT)\b' under re.IGNORECASE
boolean_pattern == {KW_AND, KW_OR, KW_NOT}

\* re.search(r'\b(AND|OR|NOT)\b', s, re.IGNORECASE)
has_operators(s) ==
    \E kw \in boolean_pattern : \E i \in 1..Len(s) : MatchWordAt(s, i, kw)

\* index of the first quote character at or after position i, 0 when none
NextQuote(s, i) ==
    IF \E j \in i..Len(s) : s[j] = QUOTE
    THEN CHOOSE j \in i..Len(s) :
            s[j] = QUOTE /\ \A k \in i..(j - 1) : s[k] # QUOTE
    ELSE 0

\* r'"([^"]+)"' matches s with its opening quote at position i
QuotedMatchAt(s, i) ==
    /\ s[i] = QUOTE
    /\ NextQuote(s, i + 1) >= i + 2

\* re.findall(r'"([^"]+)"', query)[0], or None when there is no match
_extract_first_quoted_phrase(s) ==
    IF \E i \in 1..Len(s) : QuotedMatchAt(s, i)
    THEN LET i == CHOOSE k \in 1..Len(s) :
                    QuotedMatchAt(s, k) /\ \A m \in 1..(k - 1) : ~QuotedMatchAt(s, m)
         IN  SubSeq(s, i + 1, NextQuote(s, i + 1) - 1)
    ELSE None

\* the conversion without the OR join of plain terms
_convert_to_fts_no_or_join(q) ==
    LET normal  == SubWord(SubWord(SubWord(q, KW_AND), KW_OR), KW_NOT)
        cleaned == Strip(CollapseSpaces(normal))
    IN  IF cleaned = <<>> \/ cleaned \in {Upper(KW_AND), Upper(KW_OR), Upper(KW_NOT)}
        THEN <<>>
        ELSE cleaned

_convert_to_fts(q) ==
    LET cleaned == Strip(CollapseSpaces(q))
        terms   == Split(cleaned)
        joined  == IF ~has_operators(cleaned) /\ Len(terms) > 1
                   THEN Join(<<SPACE, "O", "R", SPACE>>, terms)
                   ELSE cleaned
        normal  == SubWord(SubWord(SubWord(joined, KW_AND), KW_OR), KW_NOT)
    IN  IF normal = <<>> \/ normal \in {Upper(KW_AND), Upper(KW_OR), Upper(KW_NOT)}
        THEN <<>>
        ELSE normal

parse(q) ==
    IF q = <<>> \/ Strip(q) = <<>>
    THEN [fts_query |-> <<>>, exact_phrase |-> None, original_query |-> q]
    ELSE [fts_query      |-> _convert_to_fts(q),
          exact_phrase   |-> _extract_first_quoted_phrase(q),
          original_query |-> Strip(q)]

\* len(query) > 1000
MaxLength == 1000

APOSTROPHE == "'"
PIPE       == "|"
COLON      == ":"

\* the characters the class [^\w\s\'"*()AND|OR|NOT-] does not match: \w, \s and
\* every character written between the brackets, each standing for itself
ReasonableChar(c) ==
    \/ IsWordChar(c)
    \/ IsSpaceChar(c)
    \/ c \in {APOSTROPHE, QUOTE, STAR, "(", ")",
              "A", "N", "D", PIPE, "O", "R", "T", "-"}

\* query.count('"')
quote_count(q) == Cardinality({i \in 1..Len(q) : q[i] = QUOTE})

\* the validation with the length test written >=
validate_query_length_inclusive(q) ==
    IF q = <<>> \/ Strip(q) = <<>> THEN FALSE
    ELSE IF Len(q) >= MaxLength THEN FALSE
    ELSE IF quote_count(q) % 2 # 0 THEN FALSE
    ELSE IF \E i \in 1..Len(q) : ~ReasonableChar(q[i]) THEN FALSE
    ELSE TRUE

validate_query(q) ==
    IF q = <<>> \/ Strip(q) = <<>> THEN FALSE
    ELSE IF Len(q) > MaxLength THEN FALSE
    ELSE IF quote_count(q) % 2 # 0 THEN FALSE
    ELSE IF \E i \in 1..Len(q) : ~ReasonableChar(q[i]) THEN FALSE
    ELSE TRUE

(***************************************************************************)
(* Numbers                                                                 *)
(***************************************************************************)
\* one unit of the reals: every score and weight counts thousandths
Scale == 1000

\* a * b of two reals
Times(a, b) == (a * b) \div Scale

\* round(v, 2): to the nearest hundredth, a half going to the even hundredth
Round2(v) ==
    LET q == v \div 10
        r == v % 10
    IN  IF r < 5 THEN q * 10
        ELSE IF r > 5 THEN (q + 1) * 10
        ELSE IF q % 2 = 0 THEN q * 10 ELSE (q + 1) * 10

RECURSIVE SumOver(_, _)
SumOver(f, S) ==
    IF S = {} THEN 0
    ELSE LET x == CHOOSE y \in S : TRUE
         IN  f[x] + SumOver(f, S \ {x})

\* the order of sorted(keys)[::-1]: descending, but equal keys end up in the
\* reverse of their original order
ReversedSortDesc(keys) ==
    LET n == Len(keys)
        before(i) == {j \in 1..n : keys[j] > keys[i] \/ (keys[j] = keys[i] /\ j > i)}
    IN  [p \in 1..n |-> CHOOSE i \in 1..n : Cardinality(before(i)) = p - 1]

\* the order list.sort(key, reverse=True) / sorted(..., reverse=True) leaves
\* the positions of keys in: descending, equal keys in their original order
StableSortDesc(keys) ==
    LET n == Len(keys)
        before(i) == {j \in 1..n : keys[j] > keys[i] \/ (keys[j] = keys[i] /\ j < i)}
    IN  [p \in 1..n |-> CHOOSE i \in 1..n : Cardinality(before(i)) = p - 1]

(***************************************************************************)
(* ScoringConfig, FieldWeights                                             *)
(***************************************************************************)
\* FieldWeights(): the defaults of the model class
DefaultFieldWeights ==
    [quote_text |-> 1000, quote_keywords |-> 800, book_keywords |-> 700,
     themes |-> 600, summary |-> 500, book_title |-> 3000,
     book_authors |-> 2500, type |-> 400, publisher |-> 300, journal |-> 300]

\* ScoringConfig()
DefaultConfig ==
    [bm25_weight |-> 1000, phrase_bonus |-> 2000,
     field_weights |-> DefaultFieldWeights]

\* a configuration an operator posts: doubled base relevance, small bonuses
TunedConfig ==
    [bm25_weight |-> 2000, phrase_bonus |-> 6,
     field_weights |->
        [quote_text |-> 0, quote_keywords |-> 4, book_keywords |-> 0,
         themes |-> 0, summary |-> 0, book_title |-> 0,
         book_authors |-> 0, type |-> 0, publisher |-> 0, journal |-> 0]]

\* the configurations a client posts to /tuning/config
ConfigPool == {DefaultConfig, TunedConfig}

\* every weight zero, the phrase bonus alone left
PhraseOnlyConfig ==
    [bm25_weight |-> 0, phrase_bonus |-> 2000,
     field_weights |-> [w \in DOMAIN DefaultFieldWeights |-> 0]]

\* a configuration with negative weights: the fields are plain floats, the
\* model class takes any number
NegativeConfig ==
    [bm25_weight |-> -1000, phrase_bonus |-> 2000,
     field_weights |-> [DefaultFieldWeights EXCEPT !.book_title = -3000]]

\* the request bodies the tuning endpoints parse into a ScoringConfig
RequestConfigPool == {DefaultConfig, PhraseOnlyConfig, NegativeConfig}

\* scorer.scoring_config = None
NoConfig == [none |-> TRUE]

\* QuoteScorer(phrase_bonus=2.0)
DefaultPhraseBonus == 2000

(***************************************************************************)
(* The database                                                            *)
(***************************************************************************)
\* the expression the index is asked for, and the phrase a query may quote
Expr   == <<"x">>
Phrase == <<"a">>

BookIds == {1, 2}

\* the books table
InitialBooks ==
    [b \in BookIds |->
        IF b = 1
        THEN [id |-> 1, title |-> <<"X", " ", "a">>, authors |-> None,
              doc_keywords |-> <<>>, doc_summary |-> <<"a">>,
              publisher |-> <<"x">>, container |-> None, total_quotes |-> 12]
        ELSE [id |-> 2, title |-> <<"a">>, authors |-> <<"n">>,
              doc_keywords |-> None, doc_summary |-> None,
              publisher |-> None, container |-> <<"x">>, total_quotes |-> 12]]

\* quotes that match Expr, as the quotes table stores them (text, keywords),
\* each with the fts.rank the index computes for it: the negative BM25
\* statistic, lower is better
QuotePool ==
    { [quote_text |-> <<"x", "a">>,      keywords |-> <<"x">>, rank |-> -1004],
      [quote_text |-> <<"a", " ", "x", " ", "A">>, keywords |-> None, rank |-> -1001] }

\* quotes without the term of Expr in an indexed column
OtherQuotePool ==
    { [quote_text |-> <<"a">>, keywords |-> None] }

\* quotes_fts MATCH term for a one-term expression: the term is a token of one
\* of the two columns of the virtual table, quote_text and keywords; tokens are
\* the maximal runs of word characters, compared without letter case
fts_match(quote, term) ==
    \/ /\ quote.quote_text # None
       /\ \E i \in 1..Len(quote.quote_text) : MatchWordAt(quote.quote_text, i, Lower(term))
    \/ /\ quote.keywords # None
       /\ \E i \in 1..Len(quote.keywords) : MatchWordAt(quote.keywords, i, Lower(term))

\* the index of a small library after the indexer ran: two quotes of book 2
\* match Expr, none of book 1
SampleIndex ==
    << [id |-> 1, book_id |-> 2, quote_text |-> <<"x", "a">>, keywords |-> <<"x">>,
        rank |-> -1004],
       [id |-> 2, book_id |-> 2, quote_text |-> <<"a", " ", "x", " ", "A">>,
        keywords |-> None, rank |-> -1001] >>

\* LIMIT 1000 of both search statements
FetchLimit == 1000

\* cursor.fetchall() of "... WHERE quotes_fts MATCH ? ORDER BY fts.rank LIMIT 1000"
FetchRows == SubSeq(fts_rows, 1, IF Len(fts_rows) < FetchLimit THEN Len(fts_rows) ELSE FetchLimit)

\* the CASE expression of the breakdown statement
book_type(b) ==
    IF b.container # None /\ b.container # <<>> THEN <<"j", "o", "u", "r", "n", "a", "l">>
    ELSE IF b.publisher # None /\ b.publisher # <<>> THEN <<"b", "o", "o", "k">>
    ELSE <<"u", "n", "k", "n", "o", "w", "n">>

\* one row of the breakdown statement: the quote joined with its book
BreakdownRow(r) ==
    LET b == books[r.book_id]
    IN  [id |-> r.id, book_id |-> r.book_id, quote_text |-> r.quote_text,
         quote_keywords |-> r.keywords, base_bm25_score |-> r.rank,
         book_title |-> b.title, book_authors |-> b.authors,
         book_keywords |-> b.doc_keywords, summary |-> b.doc_summary,
         publisher |-> b.publisher, container |-> b.container,
         book_type |-> book_type(b)]

\* one row of the fast statement
FastRow(r) ==
    [id |-> r.id, book_id |-> r.book_id, quote_text |-> r.quote_text,
     keywords |-> r.keywords, bm25_score |-> r.rank]

(***************************************************************************)
(* QuoteScorer                                                             *)
(***************************************************************************)
\* QuoteScorer.update_config(scoring_config, local_overrides): the scorer's
\* fields afterwards; a ScoringConfig object is always true
update_config(old_config, old_bonus, new_config) ==
    IF new_config # NoConfig
    THEN [scoring_config |-> new_config, phrase_bonus |-> new_config.phrase_bonus]
    ELSE [scoring_config |-> old_config, phrase_bonus |-> old_bonus]

\* truth value of an optional text: None and '' are false
Truthy(t) == t # None /\ t # <<>>

\* needle in hay
Contains(hay, needle) ==
    \E i \in 1..(Len(hay) - Len(needle) + 1) :
        SubSeq(hay, i, i + Len(needle) - 1) = needle

\* the phrase test as a plain case-insensitive substring test
_contains_exact_phrase_substring(text, phrase) ==
    /\ Truthy(text)
    /\ Truthy(phrase)
    /\ Contains(Lower(text), Lower(phrase))

\* re.search(r'\b' + re.escape(phrase) + r'\b', text, re.IGNORECASE)
_contains_exact_phrase(text, phrase) ==
    /\ Truthy(text)
    /\ Truthy(phrase)
    /\ \E i \in 1..(Len(text) - Len(phrase) + 1) :
          /\ Lower(SubSeq(text, i, i + Len(phrase) - 1)) = Lower(phrase)
          /\ WordBoundary(text, i)
          /\ WordBoundary(text, i + Len(phrase))

\* <<data_field, weight_field>>
field_mappings ==
    << <<"book_title", "book_title">>,
       <<"book_authors", "book_authors">>,
       <<"quote_keywords", "quote_keywords">>,
       <<"book_keywords", "book_keywords">>,
       <<"themes", "themes">>,
       <<"summary", "summary">>,
       <<"book_type", "type">>,
       <<"publisher", "publisher">>,
       <<"journal", "journal">> >>

\* quote_data.get(field)
Get(quote_data, field) ==
    IF field \in DOMAIN quote_data THEN quote_data[field] ELSE None

\* getattr(field_weights, weight_field, 0)
GetWeight(field_weights, weight_field) ==
    IF weight_field \in DOMAIN field_weights THEN field_weights[weight_field] ELSE 0

_calculate_field_scores(quote_data, q, field_weights) ==
    IF field_weights = NoConfig \/ q = <<>>
    THEN [field_score |-> 0, field_matches |-> <<>>]
    ELSE LET hit == {k \in 1..Len(field_mappings) :
                        /\ Truthy(Get(quote_data, field_mappings[k][1]))
                        /\ Contains(Lower(Get(quote_data, field_mappings[k][1])), Lower(q))}
             weight == [k \in hit |-> GetWeight(field_weights, field_mappings[k][2])]
         IN  [field_score   |-> SumOver(weight, hit),
              field_matches |-> [w \in {field_mappings[k][2] : k \in hit} |->
                                    GetWeight(field_weights, w)]]

\* the breakdown score with the base relevance left unweighted, as on the
\* fast path
ScoreWithBreakdown_unweighted(quote_data, fts_query, exact_phrase, config, bonus) ==
    LET bm25_raw        == quote_data.base_bm25_score
        bm25_normalized == IF bm25_raw < 0 THEN -bm25_raw ELSE bm25_raw
        field_weights   == IF config # NoConfig THEN config.field_weights ELSE NoConfig
        fs              == _calculate_field_scores(quote_data, fts_query, field_weights)
        pb              == IF _contains_exact_phrase(quote_data.quote_text, exact_phrase)
                           THEN bonus ELSE 0
        final_score     == bm25_normalized + fs.field_score + pb
    IN  [id |-> quote_data.id, book_id |-> quote_data.book_id,
         quote_text |-> quote_data.quote_text,
         score |-> final_score,
         score_breakdown |->
            [quote_id |-> quote_data.id, bm25_raw |-> bm25_raw,
             bm25_normalized |-> bm25_normalized,
             field_score |-> fs.field_score, field_matches |-> fs.field_matches,
             phrase_bonus |-> pb, final_score |-> final_score]]

\* the score of one row on the breakdown path, with its ScoringBreakdown
ScoreWithBreakdown(quote_data, fts_query, exact_phrase, config, bonus) ==
    LET bm25_raw        == quote_data.base_bm25_score
        bm25_normalized == IF bm25_raw < 0 THEN -bm25_raw ELSE bm25_raw
        bm25_weight     == IF config # NoConfig THEN config.bm25_weight ELSE Scale
        bm25_weighted   == Times(bm25_normalized, bm25_weight)
        field_weights   == IF config # NoConfig THEN config.field_weights ELSE NoConfig
        fs              == _calculate_field_scores(quote_data, fts_query, field_weights)
        pb              == IF _contains_exact_phrase(quote_data.quote_text, exact_phrase)
                           THEN bonus ELSE 0
        final_score     == bm25_weighted + fs.field_score + pb
    IN  [id |-> quote_data.id, book_id |-> quote_data.book_id,
         quote_text |-> quote_data.quote_text,
         score |-> final_score,
         score_breakdown |->
            [quote_id |-> quote_data.id, bm25_raw |-> bm25_raw,
             bm25_normalized |-> bm25_normalized,
             field_score |-> fs.field_score, field_matches |-> fs.field_matches,
             phrase_bonus |-> pb, final_score |-> final_score]]

\* the score of one row on the fast path
ScoreFast(quote_data, exact_phrase, bonus) ==
    LET pb         == IF _contains_exact_phrase(quote_data.quote_text, exact_phrase)
                      THEN bonus ELSE 0
        base_score == -quote_data.bm25_score
    IN  [id |-> quote_data.id, book_id |-> quote_data.book_id,
         quote_text |-> quote_data.quote_text,
         score |-> base_score + pb, phrase_bonus |-> pb, base_score |-> base_score]

\* the hits left in the order the index returned them
SortQuotes_missing(quotes) == quotes

\* quotes.sort(key=lambda x: x['score'], reverse=True)
SortQuotes(quotes) ==
    LET perm == StableSortDesc([i \in 1..Len(quotes) |-> quotes[i].score])
    IN  [p \in 1..Len(quotes) |-> quotes[perm[p]]]

_search_quotes_with_breakdown(fts_query, exact_phrase, config, bonus) ==
    IF fts_query = <<>> THEN <<>>
    ELSE SortQuotes([i \in 1..Len(FetchRows) |->
            ScoreWithBreakdown(BreakdownRow(FetchRows[i]), fts_query,
                               exact_phrase, config, bonus)])

\* the fast search keeping, when a phrase is given, only the hits that hold it
_search_quotes_phrase_filter(fts_query, exact_phrase, bonus) ==
    LET Keep(r) == exact_phrase = None \/ _contains_exact_phrase(r.quote_text, exact_phrase)
    IN  IF fts_query = <<>> THEN <<>>
        ELSE SortQuotes([i \in 1..Len(SelectSeq(FetchRows, Keep)) |->
                ScoreFast(FastRow(SelectSeq(FetchRows, Keep)[i]), exact_phrase, bonus)])

_search_quotes(fts_query, exact_phrase, bonus) ==
    IF fts_query = <<>> THEN <<>>
    ELSE SortQuotes([i \in 1..Len(FetchRows) |->
            ScoreFast(FastRow(FetchRows[i]), exact_phrase, bonus)])

\* "Keep only top 5 quotes per book"
TopQuotesCap == 5

\* the entry of a quote in top_quotes, fast path
QuoteResponse(quote) ==
    [id |-> quote.id, quote_text |-> quote.quote_text,
     score |-> Round2(quote.score)]

\* the entry of a quote in top_quotes, breakdown path
QuoteResponseWithBreakdown(quote) ==
    [id |-> quote.id, quote_text |-> quote.quote_text,
     score |-> Round2(quote.score_breakdown.final_score),
     score_breakdown |-> quote.score_breakdown]

\* the position of book_id's group in the groups built so far, 0 when none
GroupIndex(groups, book_id) ==
    IF \E g \in 1..Len(groups) : groups[g].book.id = book_id
    THEN CHOOSE g \in 1..Len(groups) : groups[g].book.id = book_id
    ELSE 0

\* the grouping turn with hits_count += 1 moved under the cap test
GroupStep_count_kept_only(groups, quote, entry) ==
    LET g     == GroupIndex(groups, quote.book_id)
        meta  == books[quote.book_id]
        fresh == [book |-> meta, hits_count |-> 0, top_quotes |-> <<>>,
                  total_book_quotes |-> meta.total_quotes]
        all   == IF g = 0 THEN Append(groups, fresh) ELSE groups
        k     == IF g = 0 THEN Len(all) ELSE g
        old   == all[k]
    IN  IF Len(old.top_quotes) < TopQuotesCap
        THEN [all EXCEPT ![k] =
                [old EXCEPT !.hits_count = old.hits_count + 1,
                            !.top_quotes = Append(old.top_quotes, entry)]]
        ELSE all

\* one turn of the grouping loop: book_results after quote is handled; entry
\* is the quote's top_quotes entry.  Groups stay in the order of their creation
\* (the insertion order of the dict).
GroupStep(groups, quote, entry) ==
    LET g     == GroupIndex(groups, quote.book_id)
        meta  == books[quote.book_id]
        fresh == [book |-> meta, hits_count |-> 0, top_quotes |-> <<>>,
                  total_book_quotes |-> meta.total_quotes]
        all   == IF g = 0 THEN Append(groups, fresh) ELSE groups
        k     == IF g = 0 THEN Len(all) ELSE g
        old   == all[k]
    IN  [all EXCEPT ![k] =
            [old EXCEPT !.hits_count = old.hits_count + 1,
                        !.top_quotes = IF Len(old.top_quotes) < TopQuotesCap
                                       THEN Append(old.top_quotes, entry)
                                       ELSE old.top_quotes]]

RECURSIVE _group_by_book(_)
_group_by_book(quotes) ==
    IF quotes = <<>> THEN <<>>
    ELSE LET last == quotes[Len(quotes)]
         IN  GroupStep(_group_by_book(SubSeq(quotes, 1, Len(quotes) - 1)),
                       last, QuoteResponse(last))

RECURSIVE _group_by_book_with_breakdown(_)
_group_by_book_with_breakdown(quotes) ==
    IF quotes = <<>> THEN <<>>
    ELSE LET last == quotes[Len(quotes)]
         IN  GroupStep(_group_by_book_with_breakdown(SubSeq(quotes, 1, Len(quotes) - 1)),
                       last, QuoteResponseWithBreakdown(last))

\* the groups sorted on the same key, equal keys in reverse order
SortBooks_ties_reversed(groups) ==
    LET key(g) == IF g.top_quotes # <<>> THEN g.top_quotes[1].score ELSE 0
        perm   == ReversedSortDesc([i \in 1..Len(groups) |-> key(groups[i])])
    IN  [p \in 1..Len(groups) |-> groups[perm[p]]]

\* sorted(book_results.values(),
\*        key=lambda x: x['top_quotes'][0]['score'] if x['top_quotes'] else 0, reverse=True)
SortBooks(groups) ==
    LET key(g) == IF g.top_quotes # <<>> THEN g.top_quotes[1].score ELSE 0
        perm   == StableSortDesc([i \in 1..Len(groups) |-> key(groups[i])])
    IN  [p \in 1..Len(groups) |-> groups[perm[p]]]

\* seq[offset:offset + limit + 1]
Slice_one_more(seq, offset, limit) ==
    SubSeq(seq, offset + 1,
           IF offset + limit + 1 < Len(seq) THEN offset + limit + 1 ELSE Len(seq))

\* seq[offset:offset + limit]
Slice(seq, offset, limit) ==
    SubSeq(seq, offset + 1, IF offset + limit < Len(seq) THEN offset + limit ELSE Len(seq))

\* the statements the two steps of a search execute on the connection
FTS_STATEMENT   == "SELECT FROM quotes_fts WHERE quotes_fts MATCH"
BOOKS_STATEMENT == "SELECT FROM books WHERE id IN"

\* the search step executing its statement whatever the expression
SearchStatements_unguarded(fts_query) == <<FTS_STATEMENT>>

\* _search_quotes / _search_quotes_with_breakdown: "if not fts_query: return []"
\* comes before cursor.execute
SearchStatements(fts_query) ==
    IF fts_query = <<>> THEN <<>> ELSE <<FTS_STATEMENT>>

\* _group_by_book / _group_by_book_with_breakdown: "if not book_ids: return {}"
\* comes before cursor.execute
GroupStatements(quotes) ==
    IF {quotes[i].book_id : i \in 1..Len(quotes)} = {} THEN <<>> ELSE <<BOOKS_STATEMENT>>

search_and_score(fts_query, exact_phrase, offset, limit, bonus) ==
    LET quotes       == _search_quotes(fts_query, exact_phrase, bonus)
        sorted_books == SortBooks(_group_by_book(quotes))
    IN  [quotes |-> quotes, sorted_books |-> sorted_books,
         results |-> Slice(sorted_books, offset, limit),
         total |-> Len(sorted_books), offset |-> offset, limit |-> limit,
         statements |-> SearchStatements(fts_query) \o GroupStatements(quotes)]

search_with_breakdown(fts_query, exact_phrase, limit, config, bonus) ==
    LET quotes       == _search_quotes_with_breakdown(fts_query, exact_phrase, config, bonus)
        sorted_books == SortBooks(_group_by_book_with_breakdown(quotes))
    IN  [quotes |-> quotes, sorted_books |-> sorted_books,
         results |-> Slice(sorted_books, 0, limit),
         total |-> Len(sorted_books),
         statements |-> SearchStatements(fts_query) \o GroupStatements(quotes)]

\* limit=1000 of the search route
RouteLimit == 1000

\* the search route from "Update scorer with current tuning configuration"
\* on: the scorer is the scorer after update_config
search_quotes(fts_query, exact_phrase, offset, limit, scorer) ==
    LET r == search_with_breakdown(fts_query, exact_phrase, RouteLimit,
                                   scorer.scoring_config, scorer.phrase_bonus)
    IN  [quotes |-> r.quotes, sorted_books |-> r.sorted_books,
         results |-> Slice(r.results, offset, limit),
         total |-> r.total, offset |-> offset, limit |-> limit,
         statements |-> r.statements]

(***************************************************************************)
(* State machine of the ranking engine                                     *)
(***************************************************************************)
NoResponse == [none |-> TRUE]

\* what the clients of the engine pass
ExprPool   == {<<>>, Expr}
PhrasePool == {None, Phrase}
\* <<offset, limit>>
PagePool   == {<<0, 1>>, <<1, 1>>, <<0, 2>>}

(***************************************************************************)
(* TuningManager: the active configuration and the profiles on disk        *)
(***************************************************************************)
\* LocalOverrides(): a model without fields; its dict() is {}
LocalOverrides == <<>>

\* the names clients use for profiles; "ghost" is never saved
SavedNames   == {"default", "tuned"}
ProfileNames == SavedNames \cup {"ghost"}

\* no file <name>.json in profiles_dir
NoFile == [kind |-> "missing"]

\* a file json.load cannot decode
GarbageFile == [kind |-> "text"]

\* a JSON object without the required key "config"
NoConfigFile == [kind |-> "json", name |-> "default"]

\* a JSON object whose "config" names one weight only
PartialFile == [kind |-> "json", name |-> "tuned", config |-> [bm25_weight |-> 2000]]

\* TuningProfile(name=..., description=..., config=..., overrides=...)
NewProfile(name, description, config) ==
    [name |-> name, description |-> description, config |-> config,
     overrides |-> LocalOverrides]

\* json.dump(profile.dict(), f): the content of the file written
json_dump(profile) ==
    [kind |-> "json", name |-> profile.name, description |-> profile.description,
     config |-> profile.config, overrides |-> profile.overrides]

\* ScoringConfig(**d), with FieldWeights(**d["field_weights"]): absent fields
\* take the defaults of the classes
ParseScoringConfig(d) ==
    [bm25_weight   |-> IF "bm25_weight" \in DOMAIN d THEN d.bm25_weight
                       ELSE DefaultConfig.bm25_weight,
     phrase_bonus  |-> IF "phrase_bonus" \in DOMAIN d THEN d.phrase_bonus
                       ELSE DefaultConfig.phrase_bonus,
     field_weights |-> IF "field_weights" \in DOMAIN d
                       THEN [w \in DOMAIN DefaultFieldWeights |->
                                IF w \in DOMAIN d.field_weights
                                THEN d.field_weights[w]
                                ELSE DefaultFieldWeights[w]]
                       ELSE DefaultFieldWeights]

\* json.load(f) and TuningProfile(**data) both succeed on the content
Readable(content) ==
    /\ content.kind = "json"
    /\ {"name", "config"} \subseteq DOMAIN content

\* TuningProfile(**data) for a readable content
ParseProfile(content) ==
    [name        |-> content.name,
     description |-> IF "description" \in DOMAIN content THEN content.description ELSE "",
     config      |-> ParseScoringConfig(content.config),
     overrides   |-> LocalOverrides]

\* the fields of the manager as a record
Manager(config, overrides, name) ==
    [current_config |-> config, current_overrides |-> overrides,
     current_profile_name |-> name]

\* save_profile that leaves an existing file alone
save_profile_keep_existing(dir, profile) ==
    IF dir[profile.name] # NoFile THEN dir
    ELSE [dir EXCEPT ![profile.name] = json_dump(profile)]

\* TuningManager.save_profile: profiles_dir afterwards; open(file_path, 'w')
\* replaces what was there
save_profile(dir, profile) ==
    [dir EXCEPT ![profile.name] = json_dump(profile)]

\* the assignments that take the configuration and leave the recorded name
load_profile_assign_keeps_name(m, profile, name) ==
    Manager(profile.config, profile.overrides, m.current_profile_name)

\* the three assignments of load_profile after the file was read: the
\* profile's configuration and overrides, and the name that was asked for
load_profile_assign(m, profile, name) ==
    Manager(profile.config, profile.overrides, name)

\* load_profile recording the name before the file is read
load_profile_name_first(dir, m, name) ==
    IF dir[name] = NoFile \/ ~Readable(dir[name])
    THEN [ok |-> FALSE,
          manager |-> Manager(m.current_config, m.current_overrides, name)]
    ELSE [ok |-> TRUE,
          manager |-> Manager(ParseProfile(dir[name]).config,
                              ParseProfile(dir[name]).overrides, name)]

\* TuningManager.load_profile(name) on the manager m: the value returned and
\* the manager afterwards.  A missing file returns False; any exception of
\* json.load or TuningProfile(**data) is caught and returns False, and the
\* three assignments come after both
load_profile(dir, m, name) ==
    IF dir[name] = NoFile THEN [ok |-> FALSE, manager |-> m]
    ELSE IF ~Readable(dir[name]) THEN [ok |-> FALSE, manager |-> m]
    ELSE [ok |-> TRUE,
          manager |-> load_profile_assign(m, ParseProfile(dir[name]), name)]

\* the profile load_default_profile creates
DefaultProfile ==
    NewProfile("default", "Default scoring configuration", DefaultConfig)

\* load_default_profile that creates nothing
load_default_profile_no_create(dir, m) ==
    IF dir["default"] # NoFile
    THEN [dir |-> dir, manager |-> load_profile(dir, m, "default").manager]
    ELSE [dir |-> dir, manager |-> m]

\* TuningManager.load_default_profile: the directory and the manager afterwards
load_default_profile(dir, m) ==
    IF dir["default"] # NoFile
    THEN [dir |-> dir, manager |-> load_profile(dir, m, "default").manager]
    ELSE [dir |-> save_profile(dir, DefaultProfile), manager |-> m]

\* the manager the handlers see
TheManager == Manager(current_config, current_overrides, current_profile_name)

\* the module is being imported: TuningManager.__init__ has assigned its
\* fields and made the directory, load_default_profile is still to run
Starting == [kind |-> "starting"]

\* what profiles_dir may hold when the process starts
StartupFiles ==
    { d \in [ProfileNames ->
                {NoFile, GarbageFile, NoConfigFile, PartialFile,
                 json_dump(NewProfile("tuned", "", TunedConfig))}] :
        d["ghost"] \in {NoFile, GarbageFile} }

\* the directory once the server has started on an empty one
InitialDir == [n \in ProfileNames |-> IF n = "default" THEN json_dump(DefaultProfile) ELSE NoFile]

NoCall == [none |-> TRUE]

InitManager ==
    /\ profiles_dir = InitialDir
    /\ current_overrides = LocalOverrides
    /\ current_profile_name = "default"
    /\ running = NoCall
    /\ remembered = NoResponse

\* tuning_manager = TuningManager(): the last line of __init__
ManagerStart ==
    /\ response = Starting
    /\ \E r \in {load_default_profile(profiles_dir, TheManager)} :
          /\ profiles_dir' = r.dir
          /\ current_config' = r.manager.current_config
          /\ current_overrides' = r.manager.current_overrides
          /\ current_profile_name' = r.manager.current_profile_name
    /\ response' = [kind |-> "started", created |-> profiles_dir["default"] = NoFile]
    /\ UNCHANGED <<books, fts_rows, other_quotes, scoring_config, phrase_bonus,
                   parser_vars, running, remembered>>

\* the profiles a client posts to /tuning/profiles
ProfilePool ==
    { NewProfile(n, d, c) : n \in SavedNames, d \in {"", "mine"}, c \in ConfigPool }

\* POST /tuning/profiles
SaveProfile ==
    /\ response = NoResponse
    /\ \E profile \in ProfilePool :
          /\ profiles_dir' = save_profile(profiles_dir, profile)
          /\ response' = [kind |-> "saved", status |-> "saved",
                          profile |-> profile.name, saved |-> profile]
    /\ UNCHANGED <<books, fts_rows, other_quotes, current_config, scoring_config,
                   phrase_bonus, current_overrides, current_profile_name,
                   parser_vars, running, remembered>>

\* POST /tuning/profiles/{name}/activate: load_profile returns False and the
\* route answers 404, or it returns True and the route answers with the
\* configuration now active
ActivateProfile ==
    /\ response = NoResponse
    /\ \E name \in ProfileNames :
          \E r \in {load_profile(profiles_dir, TheManager, name)} :
              /\ current_config' = r.manager.current_config
              /\ current_overrides' = r.manager.current_overrides
              /\ current_profile_name' = r.manager.current_profile_name
              /\ response' =
                    IF r.ok
                    THEN [kind |-> "activate", returned |-> TRUE, status_code |-> 200,
                          profile |-> name, config |-> r.manager.current_config,
                          overrides |-> r.manager.current_overrides]
                    ELSE [kind |-> "activate", returned |-> FALSE, status_code |-> 404,
                          profile |-> name]
    /\ UNCHANGED <<books, fts_rows, other_quotes, scoring_config, phrase_bonus,
                   profiles_dir, parser_vars, running, remembered>>

InitScorer ==
    /\ books = InitialBooks
    /\ fts_rows = <<>>
    /\ other_quotes = {}
    /\ current_config = DefaultConfig
    /\ scoring_config = NoConfig
    /\ phrase_bonus = DefaultPhraseBonus
    /\ response = NoResponse

\* the indexer stores one more quote that matches Expr; the index returns it
\* after the rows of better (lower) rank
IndexQuote ==
    /\ response = NoResponse
    /\ Len(fts_rows) < MaxHits
    /\ \E b \in BookIds, q \in QuotePool :
          /\ fts_match(q, Expr)
          /\ fts_rows # <<>> => fts_rows[Len(fts_rows)].rank <= q.rank
          /\ fts_rows' = Append(fts_rows,
                [id |-> Len(fts_rows) + 1, book_id |-> b,
                 quote_text |-> q.quote_text, keywords |-> q.keywords,
                 rank |-> q.rank])
    /\ UNCHANGED <<books, other_quotes, current_config, scoring_config, phrase_bonus, response,
                   parser_vars, idle_vars>>

\* the indexer stores a quote the index will not match for Expr
StoreQuote ==
    /\ response = NoResponse
    /\ \E b \in BookIds, q \in OtherQuotePool :
          /\ ~fts_match(q, Expr)
          /\ other_quotes' = other_quotes \cup
                {[book_id |-> b, quote_text |-> q.quote_text, keywords |-> q.keywords]}
    /\ UNCHANGED <<books, fts_rows, current_config, scoring_config, phrase_bonus,
                   response, parser_vars, idle_vars>>

\* POST /tuning/config with any body the ScoringConfig model parses
TuningUpdateConfigRequest ==
    /\ response = NoResponse
    /\ \E c \in RequestConfigPool : current_config' = c
    /\ UNCHANGED <<books, fts_rows, other_quotes, scoring_config, phrase_bonus,
                   response, parser_vars, idle_vars>>

\* the queries a client posts to /tuning/search
TuningQueryPool == {<<SPACE>>, Expr, <<QUOTE, "x">>}

\* top_quotes of the groups, flattened in order: the rows of the tuning UI
RECURSIVE TuningResults(_)
TuningResults(groups) ==
    IF groups = <<>> THEN <<>>
    ELSE [k \in 1..Len(Head(groups).top_quotes) |->
            [quote_id |-> Head(groups).top_quotes[k].id,
             quote_text |-> Head(groups).top_quotes[k].quote_text,
             book_title |-> Head(groups).book.title,
             book_authors |-> Head(groups).book.authors,
             score_breakdown |-> Head(groups).top_quotes[k].score_breakdown]]
         \o TuningResults(Tail(groups))

\* a bytes value in a TEXT column: sqlite stores what it is given, and
\* EditorService.save_edit passes new_value through
Bytes == <<"b'x'">>

\* MATCH with an unterminated string: cursor.execute raises
\* sqlite3.OperationalError
fts5_syntax_error(fts_query) == quote_count(fts_query) % 2 = 1

\* query_lower in quote_data[data_field].lower() raises TypeError on bytes:
\* the loop of _calculate_field_scores has no handler
field_scores_raise(quote_data, q, field_weights) ==
    /\ field_weights # NoConfig
    /\ q # <<>>
    /\ \E k \in 1..Len(field_mappings) : Get(quote_data, field_mappings[k][1]) = Bytes

\* re.search(pattern, text) raises TypeError on bytes
phrase_test_raises(text, phrase) == text = Bytes /\ Truthy(phrase)

\* search_with_breakdown raises: the statement is rejected, or the scoring of
\* one row raises and nothing in the loop, in _search_quotes_with_breakdown or
\* in search_with_breakdown catches it
breakdown_raises(fts_query, exact_phrase, config) ==
    /\ fts_query # <<>>
    /\ \/ fts5_syntax_error(fts_query)
       \/ \E i \in 1..Len(FetchRows) :
             \/ field_scores_raise(BreakdownRow(FetchRows[i]), fts_query,
                                   IF config # NoConfig THEN config.field_weights
                                   ELSE NoConfig)
             \/ phrase_test_raises(FetchRows[i].quote_text, exact_phrase)

\* the manager after tuning_search with the finally clause left out
tuning_search_manager_no_finally(m, config, overrides) ==
    Manager(config, overrides, m.current_profile_name)

\* the manager after tuning_search: update_config and update_overrides with
\* the request's values, then, in the finally clause, with the values read
\* before
tuning_search_manager(m, config, overrides) ==
    LET original_config    == m.current_config
        original_overrides == m.current_overrides
        temporary          == Manager(config, overrides, m.current_profile_name)
    IN  Manager(original_config, original_overrides, temporary.current_profile_name)

\* POST /tuning/search: the request's configuration is made current, the
\* scorer searches with it, and the finally clause puts the original
\* configuration back into the manager and into the scorer, also when the
\* search raises and the request is answered 500
TuningSearch ==
    \E q \in TuningQueryPool, c \in RequestConfigPool, limit \in {1, 10} :
        LET exact_phrase == IF \E i \in 1..Len(q) : q[i] = QUOTE THEN q ELSE None
            temporary    == update_config(scoring_config, phrase_bonus, c)
            restored     == update_config(temporary.scoring_config,
                                          temporary.phrase_bonus, current_config)
            after        == tuning_search_manager(TheManager, c, LocalOverrides)
        IN  /\ response = NoResponse
            /\ IF Strip(q) = <<>>
               THEN /\ response' =
                          [kind |-> "tuning_search", query |-> q, config_used |-> c,
                           quotes |-> <<>>, results |-> <<>>, total |-> 0]
                    /\ UNCHANGED <<scoring_config, phrase_bonus, current_config,
                                   current_overrides, current_profile_name>>
               ELSE /\ IF breakdown_raises(q, exact_phrase, temporary.scoring_config)
                       THEN response' =
                              [kind |-> "tuning_search_error", query |-> q,
                               config_used |-> c, status_code |-> 500]
                       ELSE \E r \in {search_with_breakdown(q, exact_phrase, limit,
                                                            temporary.scoring_config,
                                                            temporary.phrase_bonus)} :
                              \E rows \in {TuningResults(r.results)} :
                                 response' =
                                   [kind |-> "tuning_search", query |-> q,
                                    config_used |-> c, quotes |-> r.quotes,
                                    results |-> Slice(rows, 0, limit),
                                    total |-> Len(rows)]
                    /\ scoring_config' = restored.scoring_config
                    /\ phrase_bonus' = restored.phrase_bonus
                    /\ current_config' = after.current_config
                    /\ current_overrides' = after.current_overrides
                    /\ current_profile_name' = after.current_profile_name
            /\ UNCHANGED <<books, fts_rows, other_quotes, profiles_dir, parser_vars,
                           running, remembered>>

\* POST /tuning/config -> tuning_manager.update_config
TuningUpdateConfig ==
    /\ response = NoResponse
    /\ \E c \in ConfigPool : current_config' = c
    /\ UNCHANGED <<books, fts_rows, other_quotes, scoring_config, phrase_bonus, response, parser_vars, idle_vars>>

\* except Exception of GET /search: whatever the scorer raises is answered
\* with HTTPException(status_code=500), no result is returned
SearchFailed(fts_query, exact_phrase) ==
    [kind |-> "search_error", fts_query |-> fts_query, exact_phrase |-> exact_phrase,
     status_code |-> 500]

\* GET /search, once the query is validated and parsed: the scorer takes the
\* active configuration, searches with breakdown and the route cuts the page;
\* an exception of the search is answered 500
SearchQuotes ==
    \E e \in ExprPool \ {<<>>}, ph \in PhrasePool, page \in PagePool :
        LET offset == page[1]
            limit  == page[2]
            scorer == update_config(scoring_config, phrase_bonus, current_config)
        IN  /\ response = NoResponse
            /\ scoring_config' = scorer.scoring_config
            /\ phrase_bonus' = scorer.phrase_bonus
            /\ IF breakdown_raises(e, ph, scorer.scoring_config)
               THEN response' = SearchFailed(e, ph)
               ELSE
               \E r \in {search_quotes(e, ph, offset, limit, scorer)} :
                  response' =
                    [kind |-> "search_quotes", fts_query |-> e, exact_phrase |-> ph,
                     config |-> current_config,
                     quotes |-> r.quotes, sorted_books |-> r.sorted_books,
                     results |-> r.results,
                     total |-> r.total, offset |-> offset, limit |-> limit,
                     statements |-> r.statements]
            /\ UNCHANGED <<books, fts_rows, other_quotes, current_config, parser_vars, idle_vars>>

\* scorer.search_and_score, the fast path
SearchAndScore ==
    \E e \in ExprPool, ph \in PhrasePool, page \in PagePool :
        LET offset == page[1]
            limit  == page[2]
        IN  /\ response = NoResponse
            /\ \E r \in {search_and_score(e, ph, offset, limit, phrase_bonus)} :
                  response' =
                    [kind |-> "search_and_score", fts_query |-> e, exact_phrase |-> ph,
                     config |-> scoring_config,
                     quotes |-> r.quotes, sorted_books |-> r.sorted_books,
                     results |-> r.results,
                     total |-> r.total, offset |-> offset, limit |-> limit,
                     statements |-> r.statements]
            /\ UNCHANGED <<books, fts_rows, other_quotes, current_config, scoring_config,
                           phrase_bonus, parser_vars, idle_vars>>

\* scorer.search_with_breakdown called directly, with the configuration the
\* scorer holds
SearchWithBreakdown ==
    \E e \in ExprPool, ph \in PhrasePool, limit \in {1, 2} :
        /\ response = NoResponse
        /\ \E r \in {search_with_breakdown(e, ph, limit, scoring_config, phrase_bonus)} :
              response' =
                [kind |-> "search_with_breakdown", fts_query |-> e, exact_phrase |-> ph,
                 config |-> scoring_config,
                 quotes |-> r.quotes, sorted_books |-> r.sorted_books,
                 results |-> r.results,
                 total |-> r.total, offset |-> 0, limit |-> limit,
                 statements |-> r.statements]
        /\ UNCHANGED <<books, fts_rows, other_quotes, current_config, scoring_config,
                       phrase_bonus, parser_vars, idle_vars>>

\* the texts a client sends as q
RequestPool ==
    { <<>>, <<SPACE>>, <<"x">>, <<SPACE, "x">>, <<"o", "r">>,
      <<QUOTE, "x">>, <<"x", COLON>> }

\* raise HTTPException(status_code=400, detail=...): nothing was executed
BadRequest(q, detail) ==
    [kind |-> "http_error", q |-> q, status_code |-> 400, detail |-> detail,
     statements |-> <<>>]

\* GET /search from its first line, the index file being there: q is checked,
\* validated and parsed, each failure answered 400, before the scorer is
\* touched.  The index of the model answers for Expr, the expression every
\* accepted text of RequestPool parses to.
SearchRequest ==
    \E q \in RequestPool, page \in PagePool :
        LET offset       == page[1]
            limit        == page[2]
            parsed_query == parse(q)
            scorer       == update_config(scoring_config, phrase_bonus, current_config)
        IN  /\ response = NoResponse
            /\ IF q = <<>> \/ Strip(q) = <<>>
               THEN /\ response' = BadRequest(q, "Query parameter 'q' is required")
                    /\ UNCHANGED <<scoring_config, phrase_bonus>>
               ELSE IF ~validate_query(q)
               THEN /\ response' = BadRequest(q, "Invalid query format")
                    /\ UNCHANGED <<scoring_config, phrase_bonus>>
               ELSE IF parsed_query.fts_query = <<>>
               THEN /\ response' = BadRequest(q, "Query could not be parsed")
                    /\ UNCHANGED <<scoring_config, phrase_bonus>>
               ELSE /\ parsed_query.fts_query = Expr
                    /\ scoring_config' = scorer.scoring_config
                    /\ phrase_bonus' = scorer.phrase_bonus
                    /\ IF breakdown_raises(parsed_query.fts_query,
                                           parsed_query.exact_phrase,
                                           scorer.scoring_config)
                       THEN response' = SearchFailed(parsed_query.fts_query,
                                                     parsed_query.exact_phrase)
                       ELSE
                       \E r \in {search_quotes(parsed_query.fts_query,
                                                parsed_query.exact_phrase,
                                                offset, limit, scorer)} :
                          response' =
                            [kind |-> "search_quotes", q |-> q,
                             fts_query |-> parsed_query.fts_query,
                             exact_phrase |-> parsed_query.exact_phrase,
                             config |-> current_config,
                             quotes |-> r.quotes, sorted_books |-> r.sorted_books,
                             results |-> r.results,
                             total |-> r.total, offset |-> offset, limit |-> limit,
                             statements |-> r.statements]
            /\ UNCHANGED <<books, fts_rows, other_quotes, current_config, parser_vars, idle_vars>>

(***************************************************************************)
(* The scorer shared by threads: a breakdown search in one thread, row by  *)
(* row, and update_config in another, assignment by assignment             *)
(***************************************************************************)
\* _search_quotes_with_breakdown is entered: field_weights is read from the
\* scorer once, before the loop, and the rows are fetched
BeginBreakdown ==
    \E ph \in PhrasePool :
        /\ running.search = NoCall
        /\ scoring_config # NoConfig
        /\ running' = [running EXCEPT !.search =
                          [pc |-> "bm25_weight", fts_query |-> Expr, exact_phrase |-> ph,
                           field_weights |-> scoring_config.field_weights,
                           rows |-> FetchRows, bm25_weight |-> 0,
                           quotes |-> <<>>, used |-> <<>>]]
        /\ UNCHANGED <<books, fts_rows, other_quotes, current_config, scoring_config,
                       phrase_bonus, response, parser_vars, manager_vars, remembered>>

\* the loop reads self.scoring_config.bm25_weight for the next row
ReadWeight ==
    /\ running.search # NoCall
    /\ running.search.pc = "bm25_weight"
    /\ Len(running.search.quotes) < Len(running.search.rows)
    /\ running' = [running EXCEPT !.search.pc = "phrase_bonus",
                                  !.search.bm25_weight = scoring_config.bm25_weight]
    /\ UNCHANGED <<books, fts_rows, other_quotes, current_config, scoring_config,
                   phrase_bonus, response, parser_vars, manager_vars, remembered>>

\* the loop scores the row: the field score with the field_weights read
\* before the loop, the bonus with self.phrase_bonus as it is now, read only
\* when the row holds the phrase
ScoreRow ==
    /\ running.search # NoCall
    /\ running.search.pc = "phrase_bonus"
    /\ LET call == running.search
           row  == BreakdownRow(call.rows[Len(call.quotes) + 1])
           used == [bm25_weight |-> call.bm25_weight, phrase_bonus |-> phrase_bonus,
                    field_weights |-> call.field_weights]
       IN  running' = [running EXCEPT
                !.search.pc = "bm25_weight",
                !.search.quotes =
                    Append(call.quotes,
                           ScoreWithBreakdown(row, call.fts_query, call.exact_phrase,
                                              used, phrase_bonus)),
                !.search.used =
                    Append(call.used,
                           [bm25_weight |-> used.bm25_weight,
                            field_weights |-> used.field_weights,
                            phrase_bonus |-> used.phrase_bonus,
                            bonus_read |->
                              _contains_exact_phrase(row.quote_text, call.exact_phrase)])]
    /\ UNCHANGED <<books, fts_rows, other_quotes, current_config, scoring_config,
                   phrase_bonus, response, parser_vars, manager_vars, remembered>>

\* the loop is over: the hits are sorted and returned
EndBreakdown ==
    /\ running.search # NoCall
    /\ running.search.pc = "bm25_weight"
    /\ Len(running.search.quotes) = Len(running.search.rows)
    /\ response = NoResponse
    /\ response' = [kind |-> "breakdown", fts_query |-> running.search.fts_query,
                    exact_phrase |-> running.search.exact_phrase,
                    quotes |-> SortQuotes(running.search.quotes),
                    used |-> running.search.used]
    /\ running' = [running EXCEPT !.search = NoCall]
    /\ UNCHANGED <<books, fts_rows, other_quotes, current_config, scoring_config,
                   phrase_bonus, parser_vars, manager_vars, remembered>>

\* update_config in the other thread, first assignment:
\* self.scoring_config = scoring_config
AssignScoringConfig ==
    \E c \in ConfigPool :
        /\ running.update = NoCall
        /\ scoring_config' = c
        /\ running' = [running EXCEPT !.update = c]
        /\ UNCHANGED <<books, fts_rows, other_quotes, current_config, phrase_bonus,
                       response, parser_vars, manager_vars, remembered>>

\* update_config, second assignment:
\* self.phrase_bonus = scoring_config.phrase_bonus
AssignPhraseBonus ==
    /\ running.update # NoCall
    /\ phrase_bonus' = running.update.phrase_bonus
    /\ running' = [running EXCEPT !.update = NoCall]
    /\ UNCHANGED <<books, fts_rows, other_quotes, current_config, scoring_config,
                   response, parser_vars, manager_vars, remembered>>

\* the caller of a search keeps what it was answered, to compare a later
\* answer with it
KeepResponse ==
    /\ response # NoResponse
    /\ response.kind \in {"search_and_score", "search_quotes"}
    /\ remembered = NoResponse
    /\ remembered' = [response |-> response, books |-> books, fts_rows |-> fts_rows,
                      current_config |-> current_config]
    /\ response' = NoResponse
    /\ UNCHANGED <<books, fts_rows, other_quotes, current_config, scoring_config,
                   phrase_bonus, parser_vars, manager_vars, running>>

\* the call returns: its result goes to the caller
Respond ==
    /\ response # NoResponse
    /\ response # Starting
    /\ response' = NoResponse
    /\ UNCHANGED <<books, fts_rows, other_quotes, current_config, scoring_config, phrase_bonus,
                   parser_vars, idle_vars>>

(***************************************************************************)
(* EditorService: edits written directly to the books and quotes tables    *)
(***************************************************************************)
ALLOWED_BOOK_FIELDS ==
    {"title", "authors", "year", "publisher", "doi", "issn",
     "entry_type", "doc_keywords", "doc_summary", "container"}

ALLOWED_QUOTE_FIELDS == {"quote_text", "page", "keywords", "section"}

\* EditorService(db_path, max_retries): the most attempts a service is built with
MaxRetries == 3

\* EditorService._validate_field: the table name, or InvalidFieldError raised
_validate_field(entity_type, field_name) ==
    IF entity_type = "book"
    THEN IF field_name \notin ALLOWED_BOOK_FIELDS THEN "InvalidFieldError" ELSE "books"
    ELSE IF entity_type = "quote"
    THEN IF field_name \notin ALLOWED_QUOTE_FIELDS THEN "InvalidFieldError" ELSE "quotes"
    ELSE "InvalidFieldError"

\* the loop of _retry_on_lock from attempt number attempt (counted from 0) on:
\* outcomes[i] is what the i-th call of the operation does
RECURSIVE retry_loop(_, _, _)
retry_loop(max_retries, outcomes, attempt) ==
    IF attempt >= max_retries
    THEN [raised |-> "DatabaseLockError", attempts |-> attempt]
    ELSE IF outcomes[attempt + 1] = "returned"
    THEN [raised |-> "none", attempts |-> attempt + 1]
    ELSE IF outcomes[attempt + 1] = "locked"
    THEN retry_loop(max_retries, outcomes, attempt + 1)
    ELSE [raised |-> outcomes[attempt + 1], attempts |-> attempt + 1]

\* the loop retrying after every exception
RECURSIVE retry_loop_any(_, _, _)
retry_loop_any(max_retries, outcomes, attempt) ==
    IF attempt >= max_retries
    THEN [raised |-> "DatabaseLockError", attempts |-> attempt]
    ELSE IF outcomes[attempt + 1] = "returned"
    THEN [raised |-> "none", attempts |-> attempt + 1]
    ELSE retry_loop_any(max_retries, outcomes, attempt + 1)

\* _retry_on_lock retrying whatever the operation raised
_retry_on_lock_any_error(max_retries, outcomes) ==
    retry_loop_any(max_retries, outcomes, 0)

\* EditorService._retry_on_lock(operation): what the call raises ("none" when
\* it returns the operation's result) and how often the operation was called
_retry_on_lock(max_retries, outcomes) ==
    retry_loop(max_retries, outcomes, 0)

\* SELECT ... FROM table WHERE id = ? finds a row
EntityExists(db, table_name, entity_id) ==
    IF table_name = "books" THEN entity_id \in DOMAIN db.books
    ELSE \E i \in 1..Len(db.fts_rows) : db.fts_rows[i].id = entity_id

\* UPDATE table SET field = ? WHERE id = ?: a text column keeps text as text
\* and bytes as a BLOB; quotes_fts is not rebuilt
Update(db, table_name, entity_id, field_name, new_value) ==
    IF table_name = "books"
    THEN [db EXCEPT !.books[entity_id][field_name] = new_value]
    ELSE [db EXCEPT !.fts_rows =
            [i \in 1..Len(db.fts_rows) |->
                IF db.fts_rows[i].id = entity_id
                THEN [db.fts_rows[i] EXCEPT ![field_name] = new_value]
                ELSE db.fts_rows[i]]]

\* _perform_edit on a database that answers
_perform_edit(db, table_name, entity_id, field_name, new_value) ==
    IF ~EntityExists(db, table_name, entity_id)
    THEN [raised |-> "EntityNotFoundError", db |-> db]
    ELSE [raised |-> "none",
          db |-> Update(db, table_name, entity_id, field_name, new_value)]

\* the updates of a request applied in the order of the dict
RECURSIVE ApplyUpdates(_, _, _, _)
ApplyUpdates(db, table_name, entity_id, updates) ==
    IF updates = <<>> THEN db
    ELSE ApplyUpdates(Update(db, table_name, entity_id,
                             updates[1].field_name, updates[1].new_value),
                      table_name, entity_id, Tail(updates))

\* _perform_multiple_edits on a database that answers; table_name is None
\* when updates was empty, and "SELECT id FROM None" is "no such table"
_perform_multiple_edits(db, table_name, entity_id, updates) ==
    IF table_name = "None"
    THEN [raised |-> "OperationalError", db |-> db]
    ELSE IF ~EntityExists(db, table_name, entity_id)
    THEN [raised |-> "EntityNotFoundError", db |-> db]
    ELSE [raised |-> "none", db |-> ApplyUpdates(db, table_name, entity_id, updates)]

\* what each call of the operation does, given what the database does at
\* each attempt and what the operation does on a database that answers
Outcomes(attempts_meet, performed) ==
    [i \in 1..Len(attempts_meet) |->
        IF attempts_meet[i] = "locked" THEN "locked"
        ELSE IF attempts_meet[i] = "io_error" THEN "OperationalError"
        ELSE IF performed.raised = "none" THEN "returned"
        ELSE performed.raised]

\* the table name after the validation loop of save_multiple_edits, or
\* InvalidFieldError at the first field that is not allowed
RECURSIVE validate_all(_, _, _)
validate_all(entity_type, updates, table_name) ==
    IF updates = <<>> THEN table_name
    ELSE IF _validate_field(entity_type, updates[1].field_name) = "InvalidFieldError"
    THEN "InvalidFieldError"
    ELSE validate_all(entity_type, Tail(updates),
                      _validate_field(entity_type, updates[1].field_name))

\* EditorService.save_edit: the exception raised or "none", the attempts made
\* and the database afterwards
save_edit(db, max_retries, attempts_meet, entity_type, entity_id, field_name, new_value) ==
    LET table_name == _validate_field(entity_type, field_name)
        performed  == _perform_edit(db, table_name, entity_id, field_name, new_value)
        outcomes   == Outcomes(attempts_meet, performed)
        retried    == _retry_on_lock(max_retries, outcomes)
    IN  IF table_name = "InvalidFieldError"
        THEN [raised |-> "InvalidFieldError", attempts |-> 0, outcomes |-> <<>>, db |-> db]
        ELSE [raised |-> retried.raised, attempts |-> retried.attempts,
              outcomes |-> outcomes,
              db |-> IF retried.raised = "none" THEN performed.db ELSE db]

\* EditorService.save_multiple_edits
save_multiple_edits(db, max_retries, attempts_meet, entity_type, entity_id, updates) ==
    LET table_name == validate_all(entity_type, updates, "None")
        performed  == _perform_multiple_edits(db, table_name, entity_id, updates)
        outcomes   == Outcomes(attempts_meet, performed)
        retried    == _retry_on_lock(max_retries, outcomes)
    IN  IF table_name = "InvalidFieldError"
        THEN [raised |-> "InvalidFieldError", attempts |-> 0, outcomes |-> <<>>, db |-> db]
        ELSE [raised |-> retried.raised, attempts |-> retried.attempts,
              outcomes |-> outcomes,
              db |-> IF retried.raised = "none" THEN performed.db ELSE db]

\* one entry of the updates of a request
Field(field_name, new_value) == [field_name |-> field_name, new_value |-> new_value]

UpdatesPool ==
    { <<>>,
      <<Field("title", <<"x">>)>>,
      <<Field("keywords", Bytes)>>,
      <<Field("title", <<"x">>), Field("id", <<"x">>)>>,
      <<Field("id", <<"x">>), Field("title", Bytes)>>,
      <<Field("keywords", <<"x">>), Field("title", <<"x">>)>> }

\* a call of editor.save_edit
SaveEdit ==
    \E entity_type \in {"book", "quote", "author"}, entity_id \in {1, 9},
       field_name \in {"title", "keywords", "id"}, new_value \in {<<"x">>, Bytes},
       max_retries \in 1..MaxRetries :
        \E attempts_meet \in [1..max_retries -> {"free", "locked", "io_error"}] :
            /\ response = NoResponse
            /\ \E r \in {save_edit([books |-> books, fts_rows |-> fts_rows], max_retries, attempts_meet, entity_type,
                                   entity_id, field_name, new_value)} :
                  /\ books' = r.db.books
                  /\ fts_rows' = r.db.fts_rows
                  /\ response' =
                       [kind |-> "save_edit", entity_type |-> entity_type,
                        entity_id |-> entity_id,
                        updates |-> <<Field(field_name, new_value)>>,
                        max_retries |-> max_retries, raised |-> r.raised,
                        attempts |-> r.attempts, outcomes |-> r.outcomes]
            /\ UNCHANGED <<other_quotes, current_config, scoring_config, phrase_bonus,
                           parser_vars, idle_vars>>

\* a call of editor.save_multiple_edits
SaveMultipleEdits ==
    \E entity_type \in {"book", "quote", "author"}, entity_id \in {1, 9},
       updates \in UpdatesPool, max_retries \in 1..MaxRetries :
        \E attempts_meet \in [1..max_retries -> {"free", "locked", "io_error"}] :
            /\ response = NoResponse
            /\ \E r \in {save_multiple_edits([books |-> books, fts_rows |-> fts_rows], max_retries, attempts_meet,
                                             entity_type, entity_id, updates)} :
                  /\ books' = r.db.books
                  /\ fts_rows' = r.db.fts_rows
                  /\ response' =
                       [kind |-> "save_multiple_edits", entity_type |-> entity_type,
                        entity_id |-> entity_id, updates |-> updates,
                        max_retries |-> max_retries, raised |-> r.raised,
                        attempts |-> r.attempts, outcomes |-> r.outcomes]
            /\ UNCHANGED <<other_quotes, current_config, scoring_config, phrase_bonus,
                           parser_vars, idle_vars>>

(***************************************************************************)
(* Parser state machine: a query is typed piece by piece and then parsed   *)
(***************************************************************************)
\* what a client may type next: single characters and operator words
Pieces ==
    { <<"x">>, <<SPACE>>, <<TAB>>, <<QUOTE>>, <<STAR>>,
      <<"o", "r">>, <<"A", "n", "d">>, <<"N", "O", "T">> }

InitParser ==
    /\ query = <<>>
    /\ parsed = NoParse
    /\ validated = <<>>

TypeQuery ==
    /\ \E p \in Pieces :
          /\ Len(query) + Len(p) <= MaxQueryLen
          /\ query' = query \o p
    /\ parsed' = NoParse
    /\ validated' = <<>>
    /\ UNCHANGED <<scorer_vars, idle_vars>>

Parse ==
    /\ parsed' = parse(query)
    /\ UNCHANGED <<query, validated, scorer_vars, idle_vars>>

\* the characters a client may send to the validation
TextChars == {"x", SPACE, QUOTE, PIPE, COLON}

\* a client types one more character of a short text
TypeText ==
    /\ Len(query) < MaxTextLen
    /\ \E c \in TextChars : query' = Append(query, c)
    /\ parsed' = NoParse
    /\ validated' = <<>>
    /\ UNCHANGED <<scorer_vars, idle_vars>>

\* a client pastes a run of letters after the text, which brings it to the
\* length limit, one character under it or one character over it
PasteRun ==
    /\ Len(query) <= MaxTextLen
    /\ \E n \in {MaxLength - 1, MaxLength, MaxLength + 1} :
          query' = query \o [i \in 1..(n - Len(query)) |-> "x"]
    /\ parsed' = NoParse
    /\ validated' = <<>>
    /\ UNCHANGED <<scorer_vars, idle_vars>>

ValidateQuery ==
    /\ validated' = <<validate_query(query)>>
    /\ UNCHANGED <<query, parsed, scorer_vars, idle_vars>>

Init == InitParser /\ InitScorer /\ InitManager

NextParser == TypeQuery \/ Parse

SpecParser == Init /\ [][NextParser]_vars

NextValidate == TypeText \/ PasteRun \/ ValidateQuery

SpecValidate == Init /\ [][NextValidate]_vars

Next ==
    IndexQuote \/ TuningUpdateConfig \/ SearchQuotes \/ SearchAndScore \/ Respond

Spec == Init /\ [][Next]_vars

\* the library with its index built, the server just started
InitTuning ==
    /\ InitParser
    /\ books = InitialBooks
    /\ fts_rows = SampleIndex
    /\ other_quotes = {}
    /\ current_config = DefaultConfig
    /\ scoring_config = NoConfig
    /\ phrase_bonus = DefaultPhraseBonus
    /\ response = NoResponse
    /\ InitManager

NextTuning ==
    \/ StoreQuote
    \/ TuningUpdateConfigRequest
    \/ TuningSearch
    \/ SearchQuotes
    \/ SearchAndScore
    \/ Respond

SpecTuning == InitTuning /\ [][NextTuning]_vars

\* the process starts on whatever the profiles directory holds, with the
\* index of the small library
InitProfiles ==
    /\ InitParser
    /\ books = InitialBooks
    /\ fts_rows = SampleIndex
    /\ other_quotes = {}
    /\ current_config = DefaultConfig
    /\ scoring_config = NoConfig
    /\ phrase_bonus = DefaultPhraseBonus
    /\ response = Starting
    /\ profiles_dir \in StartupFiles
    /\ current_overrides = LocalOverrides
    /\ current_profile_name = "default"
    /\ running = NoCall
    /\ remembered = NoResponse

NextProfiles ==
    \/ ManagerStart
    \/ SaveProfile
    \/ ActivateProfile
    \/ TuningUpdateConfigRequest
    \/ TuningSearch
    \/ Respond

SpecProfiles == InitProfiles /\ [][NextProfiles]_vars

\* the editor and the search route on the small library
NextEditor ==
    \/ SaveEdit
    \/ SaveMultipleEdits
    \/ SearchQuotes
    \/ Respond

SpecEditor == InitTuning /\ [][NextEditor]_vars

\* the server started on a default profile that holds one of the
\* configurations, the scorer as constructed
InitRepeat ==
    /\ InitParser
    /\ books = InitialBooks
    /\ fts_rows = SampleIndex
    /\ other_quotes = {}
    /\ current_config \in ConfigPool
    /\ scoring_config = NoConfig
    /\ phrase_bonus = DefaultPhraseBonus
    /\ response = NoResponse
    /\ InitManager

\* searches only: neither the index nor the active configuration changes
NextRepeat ==
    \/ SearchAndScore
    \/ SearchQuotes
    \/ TuningSearch
    \/ KeepResponse
    \/ Respond

SpecRepeat == InitRepeat /\ [][NextRepeat]_vars

\* the scorer configured by an earlier request, no call in progress
InitThreads ==
    /\ InitParser
    /\ books = InitialBooks
    /\ fts_rows = SampleIndex
    /\ other_quotes = {}
    /\ current_config = DefaultConfig
    /\ scoring_config = DefaultConfig
    /\ phrase_bonus = DefaultConfig.phrase_bonus
    /\ response = NoResponse
    /\ profiles_dir = InitialDir
    /\ current_overrides = LocalOverrides
    /\ current_profile_name = "default"
    /\ running = [search |-> NoCall, update |-> NoCall]
    /\ remembered = NoResponse

NextThreads ==
    \/ BeginBreakdown
    \/ ReadWeight
    \/ ScoreRow
    \/ EndBreakdown
    \/ AssignScoringConfig
    \/ AssignPhraseBonus
    \/ Respond

SpecThreads == InitThreads /\ [][NextThreads]_vars

NextRoute ==
    IndexQuote \/ SearchRequest \/ SearchAndScore \/ SearchWithBreakdown \/ Respond

SpecRoute == Init /\ [][NextRoute]_vars

(***************************************************************************)
(* Properties of the parser                                                *)
(***************************************************************************)
OR_SEPARATOR == <<SPACE, "O", "R", SPACE>>

\* the text without its leading and trailing whitespace
Trimmed(q) ==
    LET idx == {i \in 1..Len(q) : ~IsSpaceChar(q[i])}
    IN  IF idx = {} THEN <<>>
        ELSE SubSeq(q, CHOOSE i \in idx : \A j \in idx : i <= j,
                       CHOOSE i \in idx : \A j \in idx : i >= j)

\* the text holds and/or/not, in some letter case, as a word of its own
ContainsOperatorWord(q) ==
    \E kw \in boolean_pattern : \E i \in 1..Len(q) : MatchWordAt(q, i, kw)

RECURSIVE QuotePositionsFrom(_, _)
QuotePositionsFrom(q, i) ==
    IF i > Len(q) THEN <<>>
    ELSE IF q[i] = QUOTE THEN <<i>> \o QuotePositionsFrom(q, i + 1)
    ELSE QuotePositionsFrom(q, i + 1)

\* the quoted substrings of q: the text between the (2k-1)-th and the 2k-th
\* quote character, for every k
QuotedSubstrings(q) ==
    LET qp == QuotePositionsFrom(q, 1)
    IN  [k \in 1..(Len(qp) \div 2) |-> SubSeq(q, qp[2 * k - 1] + 1, qp[2 * k] - 1)]

BalancedQuotes(q) == Len(QuotePositionsFrom(q, 1)) % 2 = 0

\* the first quoted phrase (a quoted substring with text in it), or None
FirstQuotedPhrase(q) ==
    LET qs == QuotedSubstrings(q)
        ne == {k \in 1..Len(qs) : qs[k] # <<>>}
    IN  IF ne = {} THEN None
        ELSE qs[CHOOSE k \in ne : \A m \in ne : k <= m]

\* C8: for every query (here: every query whose quote characters pair up, so
\* that "quoted substring" is unambiguous) exact_phrase is the text of the
\* first quoted phrase with the quotes stripped, and None when the query
\* holds no quoted phrase.
C8_ExactPhraseIsFirstQuotedPhrase ==
    (parsed # NoParse /\ Strip(query) # <<>> /\ BalancedQuotes(query)) =>
        parsed.exact_phrase = FirstQuotedPhrase(query)

\* C9: in the expression returned by parse every keyword and/or/not, in any
\* letter case, is uppercase; whitespace runs are single spaces with none
\* leading or trailing; and a query with an explicit operator gets no OR
\* inserted between its terms.
C9_OperatorsUppercaseWhitespaceCollapsed ==
    parsed # NoParse =>
        LET e == parsed.fts_query
        IN  /\ \A kw \in boolean_pattern : \A i \in 1..Len(e) :
                  MatchWordAt(e, i, kw) =>
                      SubSeq(e, i, i + Len(kw) - 1) = Upper(kw)
            /\ \A i \in 1..Len(e) :
                  IsSpaceChar(e[i]) =>
                      /\ e[i] = SPACE
                      /\ i > 1 /\ i < Len(e)
                      /\ ~IsSpaceChar(e[i + 1])
            /\ (ContainsOperatorWord(query) /\ e # <<>>) =>
                  /\ Len(Split(e)) = Len(Split(query))
                  /\ \A k \in 1..Len(Split(e)) :
                        Lower(Split(e)[k]) = Lower(Split(query)[k])

C9_Witness ==
    /\ parsed # NoParse
    /\ ContainsOperatorWord(query)
    /\ Len(Split(query)) >= 2
    /\ parsed.fts_query # <<>>
    /\ Lower(parsed.fts_query) # Lower(query)
    /\ parsed.fts_query # Join(<<SPACE>>, Split(query))

\* C10: the expression is empty exactly when the text has no searchable
\* term: it is empty or whitespace-only, or its trimmed form is one bare
\* operator word in any letter case; for empty or whitespace-only text the
\* exact phrase is None as well.
C10_EmptyExpressionIffNoSearchableTerm ==
    parsed # NoParse =>
        /\ parsed.fts_query = <<>> <=>
              \/ Trimmed(query) = <<>>
              \/ Lower(Trimmed(query)) \in boolean_pattern
        /\ Trimmed(query) = <<>> => parsed.exact_phrase = None

C10_Witness ==
    /\ parsed # NoParse
    /\ parsed.fts_query = <<>>
    /\ Lower(Trimmed(query)) \in boolean_pattern
    /\ Trimmed(query) # Upper(Trimmed(query))
    /\ Trimmed(query) # query

\* the text is empty or holds whitespace only
Blank(q) == \A i \in 1..Len(q) : IsSpaceChar(q[i])

\* C11: validate_query returns False for the empty string, for whitespace-only
\* text, for text longer than 1000 characters and for text with an odd number
\* of double quotes; a text of exactly 1000 characters is not rejected for its
\* length (it passes when nothing else is wrong with it).
C11_ValidateRejectsEmptyLongUnbalanced ==
    validated # <<>> =>
        /\ Blank(query) => validated[1] = FALSE
        /\ Len(query) > 1000 => validated[1] = FALSE
        /\ quote_count(query) % 2 = 1 => validated[1] = FALSE
        /\ (Len(query) = 1000 /\ \A i \in 1..Len(query) : query[i] = "x") =>
              validated[1] = TRUE

C11_Witness ==
    /\ validated = <<FALSE>>
    /\ Len(query) = 1001
    /\ quote_count(query) = 2
    /\ \A i \in 1..Len(query) : query[i] \in {"x", QUOTE}

\* the characters the claim allows: letters, digits, underscore, whitespace,
\* apostrophe, double quote, asterisk, parentheses and hyphen
ClaimedChar(c) ==
    \/ IsLetter(c)
    \/ IsSpaceChar(c)
    \/ c \in {"0", "1", "2", "3", "4", "5", "6", "7", "8", "9", "_",
              APOSTROPHE, QUOTE, STAR, "(", ")", "-"}

\* C12: validate_query returns False for every text with at least one
\* character outside letters, digits, underscore, whitespace, apostrophe,
\* double quote, asterisk, parentheses and hyphen (a | or a : for example).
C12_ValidateRejectsOtherCharacters ==
    (validated # <<>> /\ \E i \in 1..Len(query) : ~ClaimedChar(query[i])) =>
        validated[1] = FALSE

(***************************************************************************)
(* Properties of the ranking engine                                        *)
(***************************************************************************)
Searched == response # NoResponse

\* the scored hit with a given quote id
HitOf(id) == response.quotes[CHOOSE h \in 1..Len(response.quotes) : response.quotes[h].id = id]

\* where the full-text index returned the quote with a given id
IndexPosition(id) == CHOOSE k \in 1..Len(fts_rows) : fts_rows[k].id = id

\* the hits of one book, as positions of the sorted hit list
HitsOfBook(b) == {h \in 1..Len(response.quotes) : response.quotes[h].book_id = b}

MinOf(S) == CHOOSE x \in S : \A y \in S : x <= y

\* C1: every top quote returned by the breakdown search has final_score ==
\* bm25_normalized * bm25_weight + field_score + phrase_bonus, bm25_weight being
\* that of the configuration active for the search, and the hits are ordered
\* on this unrounded final_score.
C1_FinalScoreIsWeightedSum ==
    (Searched /\ response.kind = "search_quotes") =>
        /\ \A g \in 1..Len(response.sorted_books) :
              \A k \in 1..Len(response.sorted_books[g].top_quotes) :
                 LET tq == response.sorted_books[g].top_quotes[k]
                     sb == tq.score_breakdown
                 IN  /\ sb.final_score =
                           Times(sb.bm25_normalized, response.config.bm25_weight)
                              + sb.field_score + sb.phrase_bonus
                     /\ HitOf(tq.id).score = sb.final_score
        /\ \A h \in 1..(Len(response.quotes) - 1) :
              response.quotes[h].score_breakdown.final_score >=
                 response.quotes[h + 1].score_breakdown.final_score

C1_Witness ==
    /\ Searched
    /\ response.kind = "search_quotes"
    /\ response.config.bm25_weight # Scale
    /\ \E g \in 1..Len(response.sorted_books) :
          \E k \in 1..Len(response.sorted_books[g].top_quotes) :
             LET sb == response.sorted_books[g].top_quotes[k].score_breakdown
             IN  sb.phrase_bonus > 0 /\ sb.bm25_normalized > 0
    /\ \E g \in 1..Len(response.sorted_books) :
          \E k \in 1..Len(response.sorted_books[g].top_quotes) :
             response.sorted_books[g].top_quotes[k].score_breakdown.field_score > 0

\* C2: the scored hits of a search, fast path and breakdown path, are the
\* fetched rows ordered by score descending, and hits of equal score keep the
\* order in which the index returned them.
C2_HitsSortedStable ==
    (Searched /\ response.fts_query # <<>>) =>
        /\ Len(response.quotes) = Len(FetchRows)
        /\ {response.quotes[h].id : h \in 1..Len(response.quotes)} =
              {FetchRows[k].id : k \in 1..Len(FetchRows)}
        /\ \A h1, h2 \in 1..Len(response.quotes) :
              h1 < h2 =>
                 /\ response.quotes[h1].score >= response.quotes[h2].score
                 /\ response.quotes[h1].score = response.quotes[h2].score =>
                       IndexPosition(response.quotes[h1].id) <
                          IndexPosition(response.quotes[h2].id)

C2_Witness ==
    /\ Searched
    /\ response.kind = "search_and_score"
    /\ \E h1, h2 \in 1..Len(response.quotes) :
          /\ h1 < h2
          /\ response.quotes[h1].score = response.quotes[h2].score
    /\ \E h1, h2 \in 1..Len(response.quotes) :
          /\ h1 < h2
          /\ IndexPosition(response.quotes[h1].id) > IndexPosition(response.quotes[h2].id)

\* the unrounded score of the best hit of a book
BestScore(b) == response.quotes[MinOf(HitsOfBook(b))].score

\* C3: the groups come ordered by the unrounded final score of their best
\* hit, descending, groups of equal best score in the order of their first
\* appearance in the sorted hit list: rounding the displayed score to two
\* decimals never changes the order.
C3_GroupsOrderedByUnroundedBest ==
    Searched =>
        \A g1, g2 \in 1..Len(response.sorted_books) :
           g1 < g2 =>
              LET b1 == response.sorted_books[g1].book.id
                  b2 == response.sorted_books[g2].book.id
              IN  /\ BestScore(b1) >= BestScore(b2)
                  /\ MinOf(HitsOfBook(b1)) < MinOf(HitsOfBook(b2))

C3_Witness ==
    /\ Searched
    /\ \E g1, g2 \in 1..Len(response.sorted_books) :
          LET b1 == response.sorted_books[g1].book.id
              b2 == response.sorted_books[g2].book.id
          IN  /\ g1 < g2
              /\ BestScore(b1) > BestScore(b2)
              /\ response.sorted_books[g1].top_quotes[1].score =
                    response.sorted_books[g2].top_quotes[1].score

RECURSIVE SumLens(_)
SumLens(groups) ==
    IF groups = <<>> THEN 0
    ELSE Len(Head(groups).top_quotes) + SumLens(Tail(groups))

\* C4: every group has between 1 and 5 top quotes, hits_count is the number
\* of fetched hits of its book, hits_count >= len(top_quotes) and
\* len(top_quotes) = min(5, hits_count); in total there are at most 5 top
\* quotes per group.
C4_GroupCounts ==
    Searched =>
        /\ \A g \in 1..Len(response.sorted_books) :
              LET grp  == response.sorted_books[g]
                  hits == Cardinality({k \in 1..Len(FetchRows) :
                                          FetchRows[k].book_id = grp.book.id})
              IN  /\ 1 <= Len(grp.top_quotes)
                  /\ Len(grp.top_quotes) <= 5
                  /\ grp.hits_count = hits
                  /\ grp.hits_count >= Len(grp.top_quotes)
                  /\ Len(grp.top_quotes) = IF hits < 5 THEN hits ELSE 5
        /\ SumLens(response.sorted_books) <= 5 * Len(response.sorted_books)
        /\ SumLens(response.results) <= 5 * Len(response.results)

C4_Witness ==
    /\ Searched
    /\ \E g \in 1..Len(response.sorted_books) :
          /\ response.sorted_books[g].hits_count > 5
          /\ Len(response.sorted_books[g].top_quotes) = 5

\* C5: the top quotes of a group are its book's highest-scoring hits: no
\* hit left out scores strictly more than a hit kept, and the top quotes are
\* listed by descending final score.
C5_TopQuotesAreHighestScoring ==
    Searched =>
        \A g \in 1..Len(response.sorted_books) :
           LET grp  == response.sorted_books[g]
               kept == {grp.top_quotes[k].id : k \in 1..Len(grp.top_quotes)}
           IN  /\ \A h \in HitsOfBook(grp.book.id) :
                     response.quotes[h].id \notin kept =>
                        \A id \in kept : response.quotes[h].score <= HitOf(id).score
               /\ \A k \in 1..(Len(grp.top_quotes) - 1) :
                     HitOf(grp.top_quotes[k].id).score >=
                        HitOf(grp.top_quotes[k + 1].id).score

C5_Witness ==
    /\ Searched
    /\ \E g \in 1..Len(response.sorted_books) :
          LET grp  == response.sorted_books[g]
              kept == {grp.top_quotes[k].id : k \in 1..Len(grp.top_quotes)}
          IN  \E h \in HitsOfBook(grp.book.id) :
                 /\ response.quotes[h].id \notin kept
                 /\ \E id \in kept :
                       /\ response.quotes[h].score < HitOf(id).score
                       /\ IndexPosition(response.quotes[h].id) < IndexPosition(id)

\* the page the engine returns for an offset, in the state of response
PageAt(offset) ==
    IF response.kind = "search_and_score"
    THEN search_and_score(response.fts_query, response.exact_phrase, offset,
                          response.limit, phrase_bonus).results
    ELSE search_quotes(response.fts_query, response.exact_phrase, offset,
                       response.limit,
                       [scoring_config |-> scoring_config,
                        phrase_bonus |-> phrase_bonus]).results

\* the pages for offsets from, from + limit, ... strung together
RECURSIVE PagesFrom(_)
PagesFrom(from) ==
    IF from >= response.total THEN <<>>
    ELSE PageAt(from) \o PagesFrom(from + response.limit)

\* C6: pagination is over the groups: the page is groups[offset:offset+limit]
\* of the sorted group list, total is the number of groups before pagination
\* whatever the page, and the pages for offsets 0, N, 2N, ... strung together
\* are the sorted group list, nothing twice and nothing left out.
C6_PaginationOverGroups ==
    Searched =>
        LET n    == Len(response.sorted_books)
            last == IF response.offset + response.limit < n
                    THEN response.offset + response.limit ELSE n
        IN  /\ Len(response.results) =
                  IF last > response.offset THEN last - response.offset ELSE 0
            /\ \A k \in 1..Len(response.results) :
                  response.results[k] = response.sorted_books[response.offset + k]
            /\ response.total = n
            /\ response.fts_query # <<>> =>
                  response.total =
                     Cardinality({FetchRows[k].book_id : k \in 1..Len(FetchRows)})
            /\ PagesFrom(0) = response.sorted_books
            /\ \A g1, g2 \in 1..n :
                  g1 # g2 => response.sorted_books[g1].book.id #
                                response.sorted_books[g2].book.id

C6_Witness ==
    /\ Searched
    /\ response.offset = 1
    /\ response.limit = 1
    /\ response.total = 2
    /\ Len(response.results) = 1
    /\ response.results[1] = response.sorted_books[2]
    /\ response.results[1] # response.sorted_books[1]

\* C13: a search, either variant, with an empty expression returns no group,
\* total 0, and executes no statement on the index or the books; and a request
\* whose text fails validate_query or parses to an empty expression is answered
\* 400 with no statement executed.
C13_EmptyExpressionTouchesNoIndex ==
    Searched =>
        /\ (response.kind \in {"search_and_score", "search_with_breakdown"}
                /\ response.fts_query = <<>>) =>
              /\ response.results = <<>>
              /\ response.sorted_books = <<>>
              /\ response.total = 0
              /\ response.statements = <<>>
        /\ (response.kind \in {"search_quotes", "http_error"}
                /\ (~validate_query(response.q) \/ parse(response.q).fts_query = <<>>)) =>
              /\ response.kind = "http_error"
              /\ response.status_code = 400
              /\ response.statements = <<>>

C13_Witness ==
    /\ Searched
    /\ fts_rows # <<>>
    /\ response.kind = "search_with_breakdown"
    /\ response.fts_query = <<>>
    /\ response.exact_phrase = Phrase
    /\ response.total = 0
    /\ response.statements = <<>>

\* config.phrase_bonus of the configuration a search ran under; a scorer that
\* was never configured has the bonus of ScoringConfig()
ConfigPhraseBonus(config) ==
    IF config = NoConfig THEN DefaultConfig.phrase_bonus ELSE config.phrase_bonus

\* the phrase bonus a scored hit was given
HitPhraseBonus(hit) ==
    IF response.kind = "search_and_score"
    THEN hit.phrase_bonus
    ELSE hit.score_breakdown.phrase_bonus

\* the places of text where phrase stands as a whole word, letter case aside
WholeWordPlaces(text, phrase) ==
    {i \in 1..Len(text) : MatchWordAt(text, i, Lower(phrase))}

\* C14: the phrase bonus of every hit is 0 or exactly config.phrase_bonus,
\* never a multiple; it is config.phrase_bonus when an exact phrase is given
\* and the quote text holds it as a whole word (letter case aside), and 0 when
\* not: a phrase that is only part of a longer word earns nothing.
C14_PhraseBonusOnceForWholeWordMatch ==
    (Searched /\ response.fts_query # <<>>) =>
        \A h \in 1..Len(response.quotes) :
           LET hit     == response.quotes[h]
               bonus   == ConfigPhraseBonus(response.config)
               matches == /\ response.exact_phrase # None
                          /\ WholeWordPlaces(hit.quote_text, response.exact_phrase) # {}
           IN  /\ HitPhraseBonus(hit) \in {0, bonus}
               /\ matches => HitPhraseBonus(hit) = bonus
               /\ ~matches => HitPhraseBonus(hit) = 0

C14_Witness ==
    /\ Searched
    /\ response.exact_phrase # None
    /\ ConfigPhraseBonus(response.config) # DefaultPhraseBonus
    /\ \E h \in 1..Len(response.quotes) :
          /\ Cardinality(WholeWordPlaces(response.quotes[h].quote_text,
                                         response.exact_phrase)) >= 2
          /\ \E i \in WholeWordPlaces(response.quotes[h].quote_text, response.exact_phrase) :
                SubSeq(response.quotes[h].quote_text, i,
                       i + Len(response.exact_phrase) - 1) # response.exact_phrase
          /\ HitPhraseBonus(response.quotes[h]) = ConfigPhraseBonus(response.config)
    /\ \E h \in 1..Len(response.quotes) :
          /\ Contains(Lower(response.quotes[h].quote_text), Lower(response.exact_phrase))
          /\ HitPhraseBonus(response.quotes[h]) = 0

\* what the search of response returns, in the state it left, when it is
\* given exact phrase ph and everything else as before
SearchAgain(ph) ==
    IF response.kind = "search_and_score"
    THEN search_and_score(response.fts_query, ph, response.offset,
                          response.limit, phrase_bonus)
    ELSE search_quotes(response.fts_query, ph, response.offset, response.limit,
                       [scoring_config |-> scoring_config,
                        phrase_bonus |-> phrase_bonus])

HitIds(r) == {r.quotes[h].id : h \in 1..Len(r.quotes)}

\* book id -> hits_count, over the groups of a result
HitsCountByBook(r) ==
    {<<r.sorted_books[g].book.id, r.sorted_books[g].hits_count>> :
        g \in 1..Len(r.sorted_books)}

\* C15: the exact phrase is a bonus, never a filter: on the same index, with
\* the same expression and configuration, every value of exact_phrase (None
\* too) gives the same set of hits, the same groups with the same hits_count
\* and the same total.
C15_PhraseNeverFilters ==
    Searched =>
        \A ph \in PhrasePool :
           LET other == SearchAgain(ph)
           IN  /\ HitIds(other) = HitIds(response)
               /\ HitsCountByBook(other) = HitsCountByBook(response)
               /\ other.total = response.total

C15_Witness ==
    /\ Searched
    /\ response.exact_phrase = Phrase
    /\ response.total = 2
    /\ \E h \in 1..Len(response.quotes) :
          ~_contains_exact_phrase(response.quotes[h].quote_text, Phrase)
    /\ SearchAgain(None).sorted_books[1].book.id # response.sorted_books[1].book.id
    /\ HitIds(SearchAgain(None)) = HitIds(response)

\* the row the index holds for a quote id
RowOf(id) == fts_rows[IndexPosition(id)]

\* the value a hit has for a field of FieldWeights: the quote's own columns,
\* and the columns of its book (journal is the container column; the books
\* table has no themes column)
FieldValue(hit, weight_field) ==
    LET b == books[hit.book_id]
    IN  CASE weight_field = "quote_text"     -> hit.quote_text
          [] weight_field = "quote_keywords" -> RowOf(hit.id).keywords
          [] weight_field = "book_keywords"  -> b.doc_keywords
          [] weight_field = "themes"         -> None
          [] weight_field = "summary"        -> b.doc_summary
          [] weight_field = "book_title"     -> b.title
          [] weight_field = "book_authors"   -> b.authors
          [] weight_field = "type"           -> book_type(b)
          [] weight_field = "publisher"      -> b.publisher
          [] weight_field = "journal"        -> b.container

\* C16: for every hit and EACH field of config.field_weights (quote text,
\* quote keywords, book keywords, themes, summary, title, authors, type,
\* publisher, journal/container): when the lowercase query text is a substring
\* of the field's lowercase value, the field's weight is added to field_score
\* and recorded in field_matches, otherwise neither; field_score is the sum of
\* the values of field_matches.
C16_EveryWeightedFieldScored ==
    (Searched /\ response.kind = "search_quotes") =>
        \A h \in 1..Len(response.quotes) :
           LET hit == response.quotes[h]
               sb  == hit.score_breakdown
               fw  == response.config.field_weights
           IN  /\ \A w \in DOMAIN fw :
                     IF /\ Truthy(FieldValue(hit, w))
                        /\ Contains(Lower(FieldValue(hit, w)), Lower(response.fts_query))
                     THEN w \in DOMAIN sb.field_matches /\ sb.field_matches[w] = fw[w]
                     ELSE w \notin DOMAIN sb.field_matches
               /\ sb.field_score = SumOver(sb.field_matches, DOMAIN sb.field_matches)

\* the configuration and the exact phrase a response was computed with
ResponseConfig ==
    IF response.kind = "tuning_search" THEN response.config_used ELSE response.config

ResponsePhrase ==
    IF response.kind = "tuning_search" THEN None ELSE response.exact_phrase

\* base relevance weight and every field weight zero, phrase bonus not
PhraseOnly(config) ==
    /\ config # NoConfig
    /\ config.bm25_weight = 0
    /\ \A w \in DOMAIN config.field_weights : config.field_weights[w] = 0
    /\ config.phrase_bonus # 0

\* C17: under a configuration whose base relevance weight and field weights
\* are all zero and whose phrase bonus is not, a search gives a non-zero final
\* score only to hits whose quote text holds the exact phrase; every other
\* hit scores exactly 0.
C17_PhraseOnlyConfigScoresOnlyPhraseHits ==
    (Searched /\ response.kind \in {"search_quotes", "search_and_score", "tuning_search"}
              /\ PhraseOnly(ResponseConfig)) =>
        \A h \in 1..Len(response.quotes) :
           LET hit     == response.quotes[h]
               matches == /\ ResponsePhrase # None
                          /\ WholeWordPlaces(hit.quote_text, ResponsePhrase) # {}
           IN  ~matches => hit.score = 0

\* the quotes of a book, matched by the index or not
QuoteTextsOf(b) ==
    {fts_rows[k].quote_text : k \in {j \in 1..Len(fts_rows) : fts_rows[j].book_id = b}}
        \cup {q.quote_text : q \in {o \in other_quotes : o.book_id = b}}

\* the term is in the title of book b and in none of its quotes' texts
TitleOnly(b, term) ==
    /\ Truthy(books[b].title)
    /\ Contains(Lower(books[b].title), Lower(term))
    /\ QuoteTextsOf(b) # {}
    /\ \A t \in QuoteTextsOf(b) : ~Contains(Lower(t), Lower(term))

\* C18: when the term of a search is in a book's title only, in none of its
\* quotes' texts, and field_weights.book_title > 0, the search still returns
\* the book as a group with quotes of it.
C18_TitleOnlyTermSurfacesBook ==
    (Searched /\ response.kind = "search_quotes"
              /\ response.config.field_weights.book_title > 0) =>
        \A b \in BookIds :
           TitleOnly(b, response.fts_query) =>
              \E g \in 1..Len(response.sorted_books) :
                 /\ response.sorted_books[g].book.id = b
                 /\ response.sorted_books[g].top_quotes # <<>>

\* the ids of the top quotes of every group, group by group
TopQuoteIds(groups) ==
    [g \in 1..Len(groups) |->
        [k \in 1..Len(groups[g].top_quotes) |-> groups[g].top_quotes[k].id]]

\* C19: the fast path and the breakdown path are one ranking: on the same
\* index, expression, exact phrase and active configuration they give every
\* hit the same final score, the groups in the same order with the same top
\* quotes, and the same total.
C19_FastPathEqualsBreakdownPath ==
    (Searched /\ response.kind = "search_and_score") =>
        LET other == search_with_breakdown(response.fts_query, response.exact_phrase,
                                           RouteLimit, scoring_config, phrase_bonus)
        IN  /\ \A h \in 1..Len(response.quotes) :
                  \E o \in 1..Len(other.quotes) :
                     /\ other.quotes[o].id = response.quotes[h].id
                     /\ other.quotes[o].score = response.quotes[h].score
            /\ [g \in 1..Len(other.sorted_books) |-> other.sorted_books[g].book.id] =
                  [g \in 1..Len(response.sorted_books) |-> response.sorted_books[g].book.id]
            /\ TopQuoteIds(other.sorted_books) = TopQuoteIds(response.sorted_books)
            /\ other.total = response.total

\* no weight of the configuration is negative
NonNegative(config) ==
    /\ config.bm25_weight >= 0
    /\ config.phrase_bonus >= 0
    /\ \A w \in DOMAIN config.field_weights : config.field_weights[w] >= 0

\* C20: in every reachable state the active configuration, of the manager and
\* of the scorer, has no negative weight, and no tuning search has run with
\* one: a configuration with a negative weight is refused where it is set.
C20_ActiveConfigNeverNegative ==
    /\ NonNegative(current_config)
    /\ scoring_config # NoConfig => NonNegative(scoring_config)
    /\ (Searched /\ response.kind = "tuning_search") => NonNegative(response.config_used)


(***************************************************************************)
(* Properties of the tuning manager                                        *)
(***************************************************************************)
\* a request was just answered with a response of one of the kinds
Answered(kinds) ==
    /\ response = NoResponse
    /\ response' # NoResponse
    /\ response'.kind \in kinds

\* C21: activating a profile returns False (the route answers 404) exactly when
\* no file of that name is stored or the stored content cannot be read as a
\* TuningProfile, and then the active configuration, the active overrides and
\* the recorded profile name are what they were before the call.
C21_ActivateFailureChangesNothing ==
    [][Answered({"activate"}) =>
          /\ response'.returned =
                (/\ profiles_dir[response'.profile] # NoFile
                 /\ Readable(profiles_dir[response'.profile]))
          /\ (~response'.returned) =>
                /\ response'.status_code = 404
                /\ UNCHANGED <<current_config, current_overrides, current_profile_name>>
      ]_vars

C21_Witness ==
    /\ response # NoResponse
    /\ response.kind = "activate"
    /\ ~response.returned
    /\ profiles_dir[response.profile] \in {GarbageFile, NoConfigFile}
    /\ current_profile_name # response.profile
    /\ current_config # DefaultConfig

\* C22: a successful activation makes the active configuration the one stored
\* under the name and records the name; and the store changes only when a
\* profile is saved or the default profile is created at startup, never on an
\* activation or on a change of the active configuration.
C22_ActivationReadsStoreOnly ==
    /\ [](response # NoResponse /\ response.kind = "activate" /\ response.returned =>
            /\ current_config = ParseProfile(profiles_dir[response.profile]).config
            /\ response.config = current_config
            /\ current_profile_name = response.profile)
    /\ [][profiles_dir' # profiles_dir =>
            /\ response' # NoResponse
            /\ response'.kind \in {"saved", "started"}]_vars
    /\ [][Answered({"activate"}) \/ current_config' # current_config =>
            profiles_dir' = profiles_dir]_vars

C22_Witness ==
    /\ response # NoResponse
    /\ response.kind = "activate"
    /\ response.returned
    /\ response.profile = "tuned"
    /\ current_config = TunedConfig
    /\ current_profile_name = "tuned"
    /\ profiles_dir["tuned"] = json_dump(NewProfile("tuned", "mine", TunedConfig))

\* C23: saving a profile writes the full profile under its name, replacing
\* what was stored there, and leaves every other file and the active
\* configuration alone; an activation of that name would then succeed and make
\* the saved configuration active; and since nothing but a save (and the
\* startup) changes a file, this stays so until the next save under the name.
C23_SaveReplacesAndActivates ==
    /\ [][Answered({"saved"}) =>
            /\ profiles_dir' =
                  [profiles_dir EXCEPT ![response'.saved.name] = json_dump(response'.saved)]
            /\ response'.profile = response'.saved.name
            /\ UNCHANGED <<current_config, current_overrides, current_profile_name>>
            /\ load_profile(profiles_dir', TheManager, response'.saved.name).ok
            /\ load_profile(profiles_dir', TheManager, response'.saved.name)
                    .manager.current_config = response'.saved.config
       ]_vars
    /\ [][~Answered({"saved"}) /\ response # Starting =>
            \A n \in ProfileNames : profiles_dir'[n] = profiles_dir[n]]_vars

C23_Witness ==
    /\ response # NoResponse
    /\ response.kind = "saved"
    /\ response.saved.name = "default"
    /\ response.saved.config = TunedConfig
    /\ profiles_dir["default"] = json_dump(response.saved)
    /\ profiles_dir["tuned"] = PartialFile
    /\ current_config = DefaultConfig
    /\ current_profile_name = "default"

\* a configuration with every field of ScoringConfig and FieldWeights
Complete(config) ==
    /\ DOMAIN config = {"bm25_weight", "phrase_bonus", "field_weights"}
    /\ DOMAIN config.field_weights = DOMAIN DefaultFieldWeights

\* C24: once the manager is constructed the active configuration is complete
\* and a file of the default profile exists, in every state; the construction
\* creates and stores the default profile from the built-in defaults when no
\* file was there, makes a readable file's configuration active, and leaves the
\* built-in defaults active when the file cannot be read.
C24_DefaultProfileAlwaysThere ==
    /\ [](response # Starting =>
            /\ Complete(current_config)
            /\ profiles_dir["default"] # NoFile)
    /\ [][response = Starting /\ response' # Starting =>
            IF profiles_dir["default"] = NoFile
            THEN /\ profiles_dir' =
                       [profiles_dir EXCEPT !["default"] = json_dump(DefaultProfile)]
                 /\ current_config' = DefaultConfig
            ELSE /\ profiles_dir' = profiles_dir
                 /\ current_config' =
                       IF Readable(profiles_dir["default"])
                       THEN ParseProfile(profiles_dir["default"]).config
                       ELSE DefaultConfig
       ]_vars

C24_Witness ==
    /\ response # NoResponse
    /\ response.kind = "started"
    /\ response.created
    /\ profiles_dir["default"] = json_dump(DefaultProfile)
    /\ profiles_dir["tuned"] = GarbageFile
    /\ current_config = DefaultConfig

\* C29: a tuning search, answered with results or with an error, leaves the
\* manager's active configuration, overrides and profile name and the stored
\* profiles as they were before the request.
C29_TuningSearchLeavesManagerAlone ==
    [][Answered({"tuning_search", "tuning_search_error"}) =>
          UNCHANGED <<current_config, current_overrides, current_profile_name,
                      profiles_dir>>
      ]_vars

C29_Witness ==
    /\ response # NoResponse
    /\ response.kind = "tuning_search_error"
    /\ response.config_used = NegativeConfig
    /\ current_config = TunedConfig
    /\ current_profile_name = "tuned"
    /\ scoring_config = TunedConfig

(***************************************************************************)
(* Properties of the editor                                                *)
(***************************************************************************)
\* an editor call was answered
Edited ==
    /\ response # NoResponse
    /\ response.kind \in {"save_edit", "save_multiple_edits"}

\* the entity type or one of the requested fields is not allowed
NotWhitelisted(entity_type, updates) ==
    \/ entity_type \notin {"book", "quote"}
    \/ \E i \in 1..Len(updates) :
          updates[i].field_name \notin
              (IF entity_type = "book" THEN ALLOWED_BOOK_FIELDS ELSE ALLOWED_QUOTE_FIELDS)

\* C28: save_edit and save_multiple_edits called with an entity type other
\* than 'book' and 'quote', or with a field that is not whitelisted for the
\* type, raise InvalidFieldError before the database is touched, and no row is
\* modified.
C28_WhitelistCheckedBeforeDatabase ==
    [][Answered({"save_edit", "save_multiple_edits"})
         /\ NotWhitelisted(response'.entity_type, response'.updates) =>
            /\ response'.raised = "InvalidFieldError"
            /\ response'.attempts = 0
            /\ UNCHANGED <<books, fts_rows, other_quotes>>
      ]_vars

\* C30: _retry_on_lock calls the operation at least once and at most
\* max_retries times; every call before the last one met a locked database;
\* a call that returns ends it without an exception, another exception is
\* raised by the call it came from, and when the last call too met a locked
\* database that was call number max_retries and DatabaseLockError is raised.
C30_RetryOnlyOnLock ==
    (Edited /\ response.raised # "InvalidFieldError") =>
        LET n    == response.attempts
            last == response.outcomes[n]
        IN  /\ 1 <= n
            /\ n <= response.max_retries
            /\ \A i \in 1..(n - 1) : response.outcomes[i] = "locked"
            /\ last = "returned" => response.raised = "none"
            /\ last \in {"OperationalError", "EntityNotFoundError"} => response.raised = last
            /\ last = "locked" =>
                  /\ n = response.max_retries
                  /\ response.raised = "DatabaseLockError"
            /\ response.raised = "DatabaseLockError" =>
                  \A i \in 1..response.max_retries : response.outcomes[i] = "locked"

C30_Witness ==
    /\ Edited
    /\ response.kind = "save_edit"
    /\ response.max_retries = 3
    /\ response.outcomes = <<"locked", "returned", "OperationalError">>
    /\ response.attempts = 2
    /\ response.raised = "none"
    /\ books[1].title = Bytes

\* the rows of the index whose scoring raises
FailingRows(fts_query, exact_phrase, config) ==
    {i \in 1..Len(FetchRows) :
        \/ field_scores_raise(BreakdownRow(FetchRows[i]), fts_query,
                              IF config # NoConfig THEN config.field_weights ELSE NoConfig)
        \/ phrase_test_raises(FetchRows[i].quote_text, exact_phrase)}

\* C26: when the scoring of one hit fails during a breakdown search, the
\* search is still answered with results, and these hold the other hits.
C26_FailingHitLeftOut ==
    (/\ response # NoResponse
     /\ response.kind \in {"search_quotes", "search_error"}
     /\ ~fts5_syntax_error(response.fts_query)) =>
        /\ response.kind = "search_quotes"
        /\ {response.quotes[i].id : i \in 1..Len(response.quotes)} =
              {FetchRows[i].id :
                 i \in (1..Len(FetchRows)) \
                       FailingRows(response.fts_query, response.exact_phrase,
                                   scoring_config)}

(***************************************************************************)
(* Repeated searches                                                       *)
(***************************************************************************)
\* the answer is to the request the kept answer was to, on the same index
\* and under the same active configuration
SameSearchAgain(kind) ==
    /\ response # NoResponse
    /\ remembered # NoResponse
    /\ response.kind = kind
    /\ remembered.response.kind = kind
    /\ response.fts_query = remembered.response.fts_query
    /\ response.exact_phrase = remembered.response.exact_phrase
    /\ response.offset = remembered.response.offset
    /\ response.limit = remembered.response.limit
    /\ books = remembered.books
    /\ fts_rows = remembered.fts_rows
    /\ current_config = remembered.current_config

\* C27: a search repeated with the same expression, phrase, offset and limit
\* on an unchanged index under an unchanged active configuration returns the
\* same groups in the same order with the same top quotes and scores,
\* whatever searches were answered in between.
C27_RepeatedSearchSameAnswer ==
    SameSearchAgain("search_and_score") =>
        /\ response.results = remembered.response.results
        /\ response.sorted_books = remembered.response.sorted_books
        /\ response.total = remembered.response.total

(***************************************************************************)
(* A search beside a configuration change                                  *)
(***************************************************************************)
\* C25: the base relevance weight, the field weights and the phrase bonus
\* a breakdown search applied to its hits all come from one configuration,
\* also when update_config ran in another thread during the search.
C25_NoTornConfiguration ==
    (response # NoResponse /\ response.kind = "breakdown") =>
        \E c \in ConfigPool :
            \A i \in 1..Len(response.used) :
                /\ response.used[i].bm25_weight = c.bm25_weight
                /\ response.used[i].field_weights = c.field_weights
                /\ response.used[i].bonus_read =>
                      response.used[i].phrase_bonus = c.phrase_bonus

=============================================================================
